---------------------------- MODULE Spec2Model ----------------------------
(***************************************************************************)
(* A model of ciborium, a CBOR (RFC 8949) codec.                           *)
(*                                                                         *)
(* Bytes are the integers 0..255.  A u64 is its 8 big-endian bytes, a      *)
(* u128 / i128 its 16 big-endian bytes (two's complement for i128), so     *)
(* every width of the program is kept exactly and no arithmetic leaves     *)
(* the range of the model checker's integers.  usize is taken to be 64     *)
(* bits wide (a 64-bit target).                                            *)
(***************************************************************************)
EXTENDS Integers, Sequences, FiniteSets, TLC

VARIABLES
    phase,      \* position of the driver of the pure-function specifications
    arg,        \* the input the driver was given (a Header, a Value, an integer ...)
    wire,       \* bytes written by the encoder / serializer
    back,       \* what decoding `wire` returned
    dec,        \* basic::Decoder { reader, offset, buffer }
    segs,       \* basic::Segments { buffer.is_some(), nested, unwrap }
    seg,        \* basic::Segment  { unread, offset, parser }, when one is lent out
    ret,        \* result of the last Decoder / Segments / Segment call
    stack       \* the deserializer's calls in progress: one frame per Array / Map entered

vars == <<phase, arg, wire, back, dec, segs, seg, ret, stack>>

----------------------------------------------------------------------------
(* Bounds of the model.                                                    *)

\* longest reader input enumerated for the Decoder state machine
MaxInput == 3

\* most elements of a sampled Array, most entries of a sampled Map
MaxItems == 2

\* deepest nesting of the sampled Values
MaxDepth == 3

\* deepest nesting of the containers around a misplaced Break
BreakDepth == 2

\* how far past the recursion limit the nested inputs go
MaxBeyond == 2

\* most entries of a map that is serialized canonically
MaxEntries == 3

\* length of the caller's scratch buffer handed to Decoder::bytes / text
ScratchLen == 2

----------------------------------------------------------------------------
(* Byte-string helpers.                                                    *)

Byte == 0..255

Min(a, b) == IF a <= b THEN a ELSE b

Zeros(n) == [i \in 1..n |-> 0]

\* s left-padded with zero bytes to n bytes: widening an unsigned big-endian integer
Pad(n, s) == [i \in 1..n |-> IF i <= n - Len(s) THEN 0 ELSE s[i - (n - Len(s))]]

\* the last n bytes of s: a narrowing `as` cast followed by to_be_bytes()
Low(n, s) == SubSeq(s, Len(s) - n + 1, Len(s))

IsZero(s) == \A i \in 1..Len(s) : s[i] = 0

\* number of leading zero bytes
LeadingZeros(s) ==
    IF IsZero(s) THEN Len(s)
    ELSE (CHOOSE i \in 1..Len(s) : s[i] # 0 /\ \A j \in 1..(i - 1) : s[j] = 0) - 1

\* s without its leading zero bytes
SkipZeros(s) == SubSeq(s, LeadingZeros(s) + 1, Len(s))

\* unsigned comparison of two big-endian integers of the same width
LtBytes(a, b) ==
    \E i \in 1..Len(a) : a[i] < b[i] /\ \A j \in 1..(i - 1) : a[j] = b[j]

LeBytes(a, b) == a = b \/ LtBytes(a, b)

\* x ^ !0 on a big-endian integer of any width
Not(s) == [i \in 1..Len(s) |-> 255 - s[i]]

U64(n) == Pad(8, <<n>>)

\* A u64 as a natural number.  Lengths above 2^16 saturate: every reader of the
\* model is far shorter, so such a length always runs into the end of input.
LenCap == 65536

ToNat(x) ==
    IF IsZero(SubSeq(x, 1, 6)) THEN 256 * x[7] + x[8] ELSE LenCap

----------------------------------------------------------------------------
(* basic: Major, Minor, Title (src/src/basic/mod.rs).                      *)

Majors == <<"Positive", "Negative", "Bytes", "Text", "Array", "Map", "Tag", "Other">>

\* Minor: kind is This / Next1 / Next2 / Next4 / Next8 / More; x is the value
\* of This(x); b is the affix (Minor::as_ref).
This(x)  == [kind |-> "This", x |-> x, b |-> <<>>]
NextN(b) == [kind |-> CASE Len(b) = 1 -> "Next1" [] Len(b) = 2 -> "Next2"
                        [] Len(b) = 4 -> "Next4" [] OTHER -> "Next8",
             x |-> 0, b |-> b]
More     == [kind |-> "More", x |-> 0, b |-> <<>>]

Title(major, minor) == [major |-> major, minor |-> minor]

\* Header: `some` tells Some/None of a length (TRUE for the scalar headers,
\* FALSE for Break); v holds the u64 / usize (8 bytes), the u8 of Simple (1 byte)
\* or the f64 bits of Float (8 bytes).
Hdr(tag, some, v) == [tag |-> tag, some |-> some, v |-> v]

Positive(v) == Hdr("Positive", TRUE, v)
Negative(v) == Hdr("Negative", TRUE, v)
Float(v)    == Hdr("Float", TRUE, v)
Simple(s)   == Hdr("Simple", TRUE, <<s>>)
Tag(v)      == Hdr("Tag", TRUE, v)
Break       == Hdr("Break", FALSE, <<>>)
SomeLen(tag, l) == Hdr(tag, TRUE, l)
NoneLen(tag)    == Hdr(tag, FALSE, <<>>)

SIMPLE_FALSE == 20
SIMPLE_TRUE == 21
SIMPLE_NULL == 22
SIMPLE_UNDEFINED == 23
TAG_BIGPOS == 2
TAG_BIGNEG == 3

----------------------------------------------------------------------------
(* IEEE 754 widths.  A float is its big-endian bytes; the conversions work *)
(* on the sign / exponent / fraction fields.                               *)

Pow2(n) == IF n <= 0 THEN 1 ELSE 2 ^ n

\* bits of a byte string, most significant first
Bits(s) == [i \in 1..(8 * Len(s)) |-> (s[((i - 1) \div 8) + 1] \div Pow2(7 - ((i - 1) % 8))) % 2]

\* bytes of a bit string whose length is a multiple of 8
Bytes8(bits) ==
    [i \in 1..(Len(bits) \div 8) |->
        128 * bits[8 * i - 7] + 64 * bits[8 * i - 6] + 32 * bits[8 * i - 5]
        + 16 * bits[8 * i - 4] + 8 * bits[8 * i - 3] + 4 * bits[8 * i - 2]
        + 2 * bits[8 * i - 1] + bits[8 * i]]

\* the natural number written by at most 16 bits
BitsNat(bits) ==
    LET RECURSIVE Go(_, _)
        Go(i, acc) == IF i > Len(bits) THEN acc ELSE Go(i + 1, 2 * acc + bits[i])
    IN Go(1, 0)

\* n as exactly w bits
NatBits(n, w) == [i \in 1..w |-> (n \div Pow2(w - i)) % 2]

\* Widening a float of ew exponent bits and fw fraction bits to f64
\* (f64::from(f16), f64::from(f32)): exact for finite values; a NaN keeps its
\* payload in the high fraction bits and comes out quiet.
Widen(s, ew, fw) ==
    LET b     == Bits(s)
        sign  == b[1]
        e     == BitsNat(SubSeq(b, 2, 1 + ew))
        frac  == SubSeq(b, 2 + ew, 1 + ew + fw)
        bias  == Pow2(ew - 1) - 1
        lead  == CHOOSE i \in 1..fw : frac[i] = 1 /\ \A j \in 1..(i - 1) : frac[j] = 0
        out(e64, f) == Bytes8(<<sign>> \o NatBits(e64, 11) \o f \o [i \in 1..(52 - Len(f)) |-> 0])
    IN  IF e = Pow2(ew) - 1
        THEN IF IsZero(frac) THEN out(2047, frac)
             ELSE out(2047, <<1>> \o SubSeq(frac, 2, fw))
        ELSE IF e = 0
        THEN IF IsZero(frac) THEN out(0, frac)
             ELSE out(1023 - bias + 1 - lead, SubSeq(frac, lead + 1, fw))
        ELSE out(e - bias + 1023, frac)

F16ToF64(s) == Widen(s, 5, 10)
F32ToF64(s) == Widen(s, 8, 23)

\* Narrowing an f64 to ew / fw bits the way f16::from_f64 and `as f32` do when
\* the value is representable; <<>> when it is not (the rounded result then
\* widens to different bits, which is all the encoder asks).
Narrow(s, ew, fw) ==
    LET b     == Bits(s)
        sign  == b[1]
        e     == BitsNat(SubSeq(b, 2, 12))
        frac  == SubSeq(b, 13, 64)
        bias  == Pow2(ew - 1) - 1
        e2    == e - 1023 + bias
        out(en, f) == Bytes8(<<sign>> \o NatBits(en, ew) \o f)
        k     == 1 - e2        \* shift of a subnormal result, 1..fw
    IN  IF e = 2047
        THEN IF IsZero(frac) THEN out(Pow2(ew) - 1, SubSeq(frac, 1, fw))
             ELSE IF frac[1] = 1 /\ IsZero(SubSeq(frac, fw + 1, 52))
                  THEN out(Pow2(ew) - 1, SubSeq(frac, 1, fw)) ELSE <<>>
        ELSE IF e = 0
        THEN IF IsZero(frac) THEN out(0, SubSeq(frac, 1, fw)) ELSE <<>>
        ELSE IF e2 >= 1 /\ e2 <= Pow2(ew) - 2
        THEN IF IsZero(SubSeq(frac, fw + 1, 52)) THEN out(e2, SubSeq(frac, 1, fw)) ELSE <<>>
        ELSE IF k >= 1 /\ k <= fw
        THEN IF IsZero(SubSeq(frac, fw - k + 1, 52))
             THEN out(0, [i \in 1..(k - 1) |-> 0] \o <<1>> \o SubSeq(frac, 1, fw - k))
             ELSE <<>>
        ELSE <<>>

----------------------------------------------------------------------------
(* basic::Header <-> basic::Title (src/src/basic/hdr.rs).                  *)

\* a result of the model: ok tells Ok / Err, v the Ok value, e the error
NoErr == [kind |-> "None", at |-> 0]
Io == [kind |-> "Io", at |-> 0]
Syntax(at) == [kind |-> "Syntax", at |-> at]
Ok(v) == [ok |-> TRUE, v |-> v, e |-> NoErr]
Err(e) == [ok |-> FALSE, v |-> <<>>, e |-> e]

Reverse(s) == [i \in 1..Len(s) |-> s[Len(s) + 1 - i]]

\* `opt` reading the affix with from_le_bytes
opt_le(minor) ==
    IF minor.kind = "More" THEN [some |-> FALSE, v |-> <<>>]
    ELSE IF minor.kind = "This" THEN [some |-> TRUE, v |-> U64(minor.x)]
    ELSE [some |-> TRUE, v |-> Pad(8, Reverse(minor.b))]

\* the closure `opt` of try_from: the affix widened to u64, None for More
opt(minor) ==
    IF minor.kind = "More" THEN [some |-> FALSE, v |-> <<>>]
    ELSE IF minor.kind = "This" THEN [some |-> TRUE, v |-> U64(minor.x)]
    ELSE [some |-> TRUE, v |-> Pad(8, minor.b)]

\* TryFrom<Title> for Header; Err stands for InvalidError
HeaderTryFromTitle(title) ==
    LET major == title.major
        minor == title.minor
        o == opt(minor)
    IN  IF major \in {"Positive", "Negative", "Tag"}
        THEN IF o.some THEN Ok(Hdr(major, TRUE, o.v)) ELSE Err(NoErr)
        ELSE IF major \in {"Bytes", "Text", "Array", "Map"}
        THEN Ok(Hdr(major, o.some, o.v))
        ELSE CASE minor.kind = "More"  -> Ok(Break)
               [] minor.kind = "This"  -> Ok(Simple(minor.x))
               [] minor.kind = "Next1" -> Ok(Simple(minor.b[1]))
               [] minor.kind = "Next2" -> Ok(Float(F16ToF64(minor.b)))
               [] minor.kind = "Next4" -> Ok(Float(F32ToF64(minor.b)))
               [] OTHER                -> Ok(Float(minor.b))

\* `int` with every bound exclusive
int_lt(i) ==
    IF LtBytes(i, U64(23)) THEN This(i[8])
    ELSE IF LtBytes(i, Pad(8, <<255>>)) THEN NextN(Low(1, i))
    ELSE IF LtBytes(i, Pad(8, <<255, 255>>)) THEN NextN(Low(2, i))
    ELSE IF LtBytes(i, Pad(8, <<255, 255, 255, 255>>)) THEN NextN(Low(4, i))
    ELSE NextN(i)

\* the closure `int` of Title::from: the shortest affix that holds i
int(i) ==
    IF LeBytes(i, U64(23)) THEN This(i[8])
    ELSE IF LeBytes(i, Pad(8, <<255>>)) THEN NextN(Low(1, i))
    ELSE IF LeBytes(i, Pad(8, <<255, 255>>)) THEN NextN(Low(2, i))
    ELSE IF LeBytes(i, Pad(8, <<255, 255, 255, 255>>)) THEN NextN(Low(4, i))
    ELSE NextN(i)

\* the closure `len` of Title::from
len(h) == IF h.some THEN int(h.v) ELSE More

\* From<Header> for Title
TitleFromHeader(header) ==
    CASE header.tag \in {"Positive", "Negative", "Tag"} -> Title(header.tag, int(header.v))
      [] header.tag \in {"Bytes", "Text", "Array", "Map"} -> Title(header.tag, len(header))
      [] header.tag = "Break" -> Title("Other", More)
      [] header.tag = "Simple" ->
            IF header.v[1] <= 23 THEN Title("Other", This(header.v[1]))
            ELSE Title("Other", NextN(header.v))
      [] OTHER ->
            LET n16 == Narrow(header.v, 5, 10)
                n32 == Narrow(header.v, 8, 23)
            IN  IF n16 # <<>> THEN Title("Other", NextN(n16))
                ELSE IF n32 # <<>> THEN Title("Other", NextN(n32))
                ELSE Title("Other", NextN(header.v))

----------------------------------------------------------------------------
(* basic::Encoder (src/src/basic/enc.rs).                                  *)

MajorCode(major) == (CHOOSE i \in 1..8 : Majors[i] = major) - 1

MinorCode(minor) ==
    CASE minor.kind = "This"  -> minor.x
      [] minor.kind = "Next1" -> 24
      [] minor.kind = "Next2" -> 25
      [] minor.kind = "Next4" -> 26
      [] minor.kind = "Next8" -> 27
      [] OTHER                -> 31

\* the bytes Encoder::encode writes for a title: prefix, then the affix
EncodeTitle(title) ==
    <<32 * MajorCode(title.major) + MinorCode(title.minor)>> \o title.minor.b

\* Encoder::encode over a writer that cannot fail (Vec<u8>)
encode(header) == EncodeTitle(TitleFromHeader(header))

----------------------------------------------------------------------------
(* basic::Decoder (src/src/basic/dec.rs).  A decoder is the record         *)
(* [reader, offset, buffer]: the unread input, the offset counter and the  *)
(* one-slot lookahead, a sequence of zero or one Title.                    *)

Decoder(reader) == [reader |-> reader, offset |-> 0, buffer |-> <<>>]

\* the outcome of a Decoder call: the decoder afterwards and the result
Out(d, r) == [d |-> d, r |-> r]

AffixLen(m) == CASE m = 24 -> 1 [] m = 25 -> 2 [] m = 26 -> 4 [] m = 27 -> 8 [] OTHER -> 0

\* the loop of Itemizer<Title>::pull: read titles until one is to be returned
RECURSIVE PullLoop(_, _)
PullLoop(d, skip_tag) ==
    IF d.reader = <<>> THEN Out(d, Err(Io))
    ELSE
        LET prefix == Head(d.reader)
            d1 == [d EXCEPT !.reader = Tail(@), !.offset = @ + 1]
            major == Majors[(prefix \div 32) + 1]
            m == prefix % 32
            n == AffixLen(m)
        IN  IF m \in 28..30 THEN Out(d1, Err(Syntax(d1.offset - 1)))
            ELSE IF Len(d1.reader) < n THEN Out(d1, Err(Io))
            ELSE
                LET minor == IF m < 24 THEN This(m)
                             ELSE IF m = 31 THEN More
                             ELSE NextN(SubSeq(d1.reader, 1, n))
                    d2 == [d1 EXCEPT !.reader = SubSeq(@, n + 1, Len(@)),
                                     !.offset = @ + n]
                IN  IF major # "Tag" \/ ~skip_tag
                    THEN Out(d2, Ok(Title(major, minor)))
                    ELSE PullLoop(d2, skip_tag)

\* Itemizer<Title>::pull
TitlePull(d, skip_tag) ==
    IF d.buffer # <<>>
    THEN LET title == d.buffer[1]
             d1 == [d EXCEPT !.buffer = <<>>,
                             !.offset = @ + Len(title.minor.b) + 1]
         IN  IF title.major # "Tag" \/ ~skip_tag
             THEN Out(d1, Ok(title))
             ELSE PullLoop(d1, skip_tag)
    ELSE PullLoop(d, skip_tag)

\* Decoder::push without its assert!: the slot is overwritten
push_overwrite(d, title) ==
    [d EXCEPT !.buffer = <<title>>, !.offset = @ - (Len(title.minor.b) + 1)]

\* Decoder::push.  assert!(self.buffer.is_none()) panics before anything is
\* assigned, which leaves the decoder as it was.
push(d, title) ==
    IF d.buffer # <<>> THEN d
    ELSE [d EXCEPT !.buffer = <<title>>, !.offset = @ - (Len(title.minor.b) + 1)]

\* Itemizer<Title>::peek
TitlePeek(d, skip_tag) ==
    LET o == TitlePull(d, skip_tag)
    IN  IF o.r.ok THEN Out(push(o.d, o.r.v), o.r) ELSE o

\* the tail shared by Itemizer<Header>::pull and peek
IntoHeader(o, offset) ==
    IF ~o.r.ok THEN o
    ELSE LET h == HeaderTryFromTitle(o.r.v)
         IN  IF h.ok THEN Out(o.d, h) ELSE Out(o.d, Err(Syntax(offset)))

\* Itemizer<Header>::pull
HeaderPull(d, skip_tag) == IntoHeader(TitlePull(d, skip_tag), d.offset)

\* Itemizer<Header>::peek
HeaderPeek(d, skip_tag) == IntoHeader(TitlePeek(d, skip_tag), d.offset)

\* Decoder::dump
dump(d) == [d EXCEPT !.buffer = <<>>]

----------------------------------------------------------------------------
(* basic::Segments and basic::Segment (src/src/basic/seg.rs).              *)

None == [some |-> FALSE, v |-> <<>>]
Some(v) == [some |-> TRUE, v |-> v]

\* core::str::from_utf8: the width of the well-formed scalar value that starts
\* at s[i], 0 when none does
Utf8Width(s, i) ==
    LET b == s[i]
        in(j, lo, hi) == j <= Len(s) /\ s[j] >= lo /\ s[j] <= hi
        cont(j) == in(j, 128, 191)
    IN  IF b < 128 THEN 1
        ELSE IF b \in 194..223 THEN (IF cont(i + 1) THEN 2 ELSE 0)
        ELSE IF b = 224 THEN (IF in(i + 1, 160, 191) /\ cont(i + 2) THEN 3 ELSE 0)
        ELSE IF b = 237 THEN (IF in(i + 1, 128, 159) /\ cont(i + 2) THEN 3 ELSE 0)
        ELSE IF b \in 225..239 THEN (IF cont(i + 1) /\ cont(i + 2) THEN 3 ELSE 0)
        ELSE IF b = 240
        THEN (IF in(i + 1, 144, 191) /\ cont(i + 2) /\ cont(i + 3) THEN 4 ELSE 0)
        ELSE IF b \in 241..243
        THEN (IF cont(i + 1) /\ cont(i + 2) /\ cont(i + 3) THEN 4 ELSE 0)
        ELSE IF b = 244
        THEN (IF in(i + 1, 128, 143) /\ cont(i + 2) /\ cont(i + 3) THEN 4 ELSE 0)
        ELSE 0

\* Utf8Error::valid_up_to, and Len(s) when s is valid
RECURSIVE ValidUpTo(_, _)
ValidUpTo(s, i) ==
    IF i > Len(s) THEN Len(s)
    ELSE IF Utf8Width(s, i) = 0 THEN i - 1
    ELSE ValidUpTo(s, i + Utf8Width(s, i))

\* a parser: Bytes has no state; Text keeps `stored` bytes in `buffer`
NewParser == [stored |-> 0, buffer |-> Zeros(3)]

\* Parser::saved
saved(text, parser) == IF text THEN parser.stored ELSE 0

\* Parser::parse of Bytes and of Text over the slice `full`, whose first
\* `stored` bytes the Text parser overwrites: the parser afterwards and the item
parse(text, parser, full) ==
    IF ~text THEN [parser |-> parser, r |-> Ok(full)]
    ELSE IF Len(full) <= parser.stored THEN [parser |-> parser, r |-> Ok(<<>>)]
    ELSE
        LET bytes == SubSeq(parser.buffer, 1, parser.stored)
                        \o SubSeq(full, parser.stored + 1, Len(full))
            valid_len == ValidUpTo(bytes, 1)
            invalid_len == Len(bytes) - valid_len
        IN  IF valid_len = Len(bytes) THEN [parser |-> parser, r |-> Ok(bytes)]
            ELSE IF invalid_len > 3 THEN [parser |-> parser, r |-> Err(NoErr)]
            ELSE [parser |-> [stored |-> invalid_len,
                              buffer |-> [i \in 1..3 |->
                                            IF i <= invalid_len THEN bytes[valid_len + i]
                                            ELSE parser.buffer[i]]],
                  r |-> Ok(SubSeq(bytes, 1, valid_len))]

\* Segment::next: sg is the Segment, buflen the length of the scratch buffer
SegmentNext(d, sg, text, buflen) ==
    LET prev == saved(text, sg.parser)
        size == Min(buflen, prev + sg.unread)
        n    == size - Min(size, prev)
    IN  IF sg.unread = 0
        THEN [d |-> d, seg |-> sg,
              r |-> IF prev = 0 THEN Ok(None) ELSE Err(Syntax(sg.offset))]
        ELSE IF Len(d.reader) < n THEN [d |-> d, seg |-> sg, r |-> Err(Io)]
        ELSE
            LET full == Zeros(size - n) \o SubSeq(d.reader, 1, n)
                d1 == [d EXCEPT !.reader = SubSeq(@, n + 1, Len(@)), !.offset = @ + n]
                p  == parse(text, sg.parser, full)
            IN  [d |-> d1,
                 seg |-> [sg EXCEPT !.unread = @ - n, !.parser = p.parser],
                 r |-> IF p.r.ok THEN Ok(Some(p.r.v)) ELSE Err(Syntax(sg.offset))]

\* the `unwrap` functions Decoder::bytes and Decoder::text hand to Segments
unwrap(text, header) ==
    IF header.tag = (IF text THEN "Text" ELSE "Bytes")
    THEN Ok([some |-> header.some, v |-> header.v]) ELSE Err(NoErr)

NoSegs == [active |-> FALSE, buffer |-> FALSE, nested |-> 0, text |-> FALSE, buflen |-> 0]
NoSeg == [active |-> FALSE, unread |-> 0, offset |-> 0, parser |-> NewParser]

\* Segments::new
NewSegments(text, buflen) ==
    [active |-> TRUE, buffer |-> TRUE, nested |-> 0, text |-> text, buflen |-> buflen]

\* Segments::next: the decoder and the Segments afterwards, the Segment lent
\* out (if any) and the result
RECURSIVE SegmentsNext(_, _)
SegmentsNext(d, ss) ==
    IF ~ss.buffer THEN [d |-> d, segs |-> ss, seg |-> NoSeg, r |-> Ok(None)]
    ELSE
        LET offset == d.offset
            o == HeaderPull(d, FALSE)
        IN  IF ~o.r.ok THEN [d |-> o.d, segs |-> ss, seg |-> NoSeg, r |-> o.r]
            ELSE IF o.r.v = Break /\ ss.nested = 1
            THEN [d |-> o.d, segs |-> ss, seg |-> NoSeg, r |-> Ok(None)]
            ELSE IF o.r.v = Break /\ ss.nested > 1
            THEN SegmentsNext(o.d, [ss EXCEPT !.nested = @ - 1])
            ELSE
                LET u == unwrap(ss.text, o.r.v)
                IN  IF ~u.ok
                    THEN [d |-> o.d, segs |-> ss, seg |-> NoSeg, r |-> Err(Syntax(offset))]
                    ELSE IF ~u.v.some
                    THEN SegmentsNext(o.d, [ss EXCEPT !.nested = @ + 1])
                    ELSE [d |-> o.d,
                          segs |-> [ss EXCEPT !.buffer = (ss.nested # 0)],
                          seg |-> [active |-> TRUE, unread |-> ToNat(u.v.v),
                                   offset |-> offset, parser |-> NewParser],
                          r |-> Ok(Some(<<>>))]

----------------------------------------------------------------------------
(* value::Integer and value::Value.  An Integer is (bool, u128); a Value   *)
(* is the record [k, b, n, items]: k the variant, b the bool of Bool and   *)
(* of Integer, n the bytes of Integer / Bytes / Text / Float, items the    *)
(* elements of an Array or, key and value alternating, the entries of a    *)
(* Map.                                                                    *)

Val(k, b, n, items) == [k |-> k, b |-> b, n |-> n, items |-> items]
Integer(b, n) == Val("Integer", b, n, <<>>)
VBytes(n)     == Val("Bytes", FALSE, n, <<>>)
VText(n)      == Val("Text", FALSE, n, <<>>)
VFloat(n)     == Val("Float", FALSE, n, <<>>)
Bool(b)       == Val("Bool", b, <<>>, <<>>)
Null          == Val("Null", FALSE, <<>>, <<>>)
Array(items)  == Val("Array", FALSE, <<>>, items)
Map(items)    == Val("Map", FALSE, <<>>, items)

\* is_negative of a two's complement integer
IsNegative(v) == v[1] >= 128

\* `as` from a narrower to a wider signed integer
SignExtend(n, s) ==
    [i \in 1..n |-> IF i <= n - Len(s) THEN (IF IsNegative(s) THEN 255 ELSE 0)
                    ELSE s[i - (n - Len(s))]]

\* From<u128> (and every narrower unsigned type) for Integer
IntegerFromU128(v) == Integer(TRUE, v)

\* From<i128> (and every narrower signed type) for Integer
IntegerFromI128(v) == Integer(~IsNegative(v), v)

\* TryFrom<Integer> for the unsigned type of w bytes: TRUE when it is Ok
FitsUnsigned(x, w) == x.b /\ IsZero(SubSeq(x.n, 1, 16 - w))

\* TryFrom<Integer> for the signed type of w bytes: TRUE when it is Ok
FitsSigned(x, w) ==
    IF x.b
    THEN IsZero(SubSeq(x.n, 1, 16 - w)) /\ x.n[17 - w] < 128
    ELSE x.n = SignExtend(16, Low(w, x.n))

----------------------------------------------------------------------------
(* The serde serializer over a Vec<u8> (src/src/ser/mod.rs).  Writing to   *)
(* a Vec never fails, so every operator is the bytes it writes.            *)

\* From<u64> for Minor
MinorFromU64(value) ==
    IF IsZero(SubSeq(value, 1, 7)) /\ value[8] <= 23 THEN This(value[8])
    ELSE IF IsZero(SubSeq(value, 1, 7)) THEN NextN(Low(1, value))
    ELSE IF IsZero(SubSeq(value, 1, 6)) THEN NextN(Low(2, value))
    ELSE IF IsZero(SubSeq(value, 1, 4)) THEN NextN(Low(4, value))
    ELSE NextN(value)

\* From<Option<usize>> for Minor, the length a natural number
MinorFromLength(some, l) ==
    IF some THEN MinorFromU64(<<0, 0, 0, 0, 0, 0, l \div 256, l % 256>>) ELSE More

\* Encoder::save
save(title) ==
    <<32 * MajorCode(title.major) + MinorCode(title.minor)>> \o title.minor.b

\* Encoder::bignum
ser_bignum(negative, v) ==
    IF IsZero(SubSeq(v, 1, 8))
    THEN save(Title(IF negative THEN "Negative" ELSE "Positive", MinorFromU64(Low(8, v))))
    ELSE LET length == 16 - LeadingZeros(v)
         IN  save(Title("Tag", This(IF negative THEN TAG_BIGNEG ELSE TAG_BIGPOS)))
             \o save(Title("Bytes", MinorFromLength(TRUE, length)))
             \o Low(length, v)

serialize_u64(v) == save(Title("Positive", MinorFromU64(v)))

serialize_i64(v) ==
    IF IsNegative(v) THEN save(Title("Negative", MinorFromU64(Not(v))))
    ELSE save(Title("Positive", MinorFromU64(v)))

serialize_u128(v) == ser_bignum(FALSE, v)

serialize_i128(v) ==
    IF IsNegative(v) THEN ser_bignum(TRUE, Not(v)) ELSE ser_bignum(FALSE, v)

serialize_bool(v) ==
    save(Title("Other", This(IF v THEN SIMPLE_TRUE ELSE SIMPLE_FALSE)))

serialize_f64(v) ==
    LET n16 == Narrow(v, 5, 10)
        n32 == Narrow(v, 8, 23)
    IN  save(Title("Other", NextN(IF n16 # <<>> THEN n16 ELSE IF n32 # <<>> THEN n32 ELSE v)))

serialize_str(v) == save(Title("Text", MinorFromLength(TRUE, Len(v)))) \o v

serialize_bytes(v) == save(Title("Bytes", MinorFromLength(TRUE, Len(v)))) \o v

serialize_none == save(Title("Other", This(SIMPLE_NULL)))

serialize_unit == serialize_none

\* serialize_seq / serialize_map: the header a collection starts with
serialize_seq(some, l) == save(Title("Array", MinorFromLength(some, l)))

serialize_map(some, l) == save(Title("Map", MinorFromLength(some, l)))

\* SerializeSeq::end and SerializeMap::end (the end! macro)
end(ending) == IF ending THEN save(Title("Other", More)) ELSE <<>>

\* Serialize for Integer as Value::serialize does it: the first of u8, i8,
\* u16, i16, u32, i32, u64, i64, u128, i128 that holds the value
SerializeInteger(x) ==
    LET w == CHOOSE w \in {1, 2, 4, 8, 16} :
                /\ FitsUnsigned(x, w) \/ FitsSigned(x, w)
                /\ \A u \in {1, 2, 4, 8, 16} :
                      u < w => ~(FitsUnsigned(x, u) \/ FitsSigned(x, u))
    IN  IF w = 16
        THEN (IF FitsUnsigned(x, 16) THEN serialize_u128(x.n) ELSE serialize_i128(x.n))
        ELSE IF FitsUnsigned(x, w) THEN serialize_u64(Pad(8, Low(w, x.n)))
        ELSE serialize_i64(SignExtend(8, Low(w, x.n)))

\* Serialize for Value
RECURSIVE Serialize(_)
SerializeAll(items) ==
    LET RECURSIVE Go(_)
        Go(i) == IF i > Len(items) THEN <<>> ELSE Serialize(items[i]) \o Go(i + 1)
    IN  Go(1)

Serialize(v) ==
    CASE v.k = "Bytes"   -> serialize_bytes(v.n)
      [] v.k = "Bool"    -> serialize_bool(v.b)
      [] v.k = "Text"    -> serialize_str(v.n)
      [] v.k = "Null"    -> serialize_unit
      [] v.k = "Float"   -> serialize_f64(v.n)
      [] v.k = "Integer" -> SerializeInteger(v)
      [] v.k = "Array"   ->
            serialize_seq(TRUE, Len(v.items)) \o SerializeAll(v.items) \o end(FALSE)
      [] v.k = "Map"     ->
            serialize_map(TRUE, Len(v.items) \div 2) \o SerializeAll(v.items) \o end(FALSE)

\* ser::into_writer over a Vec<u8>
into_writer(v) == Serialize(v)

----------------------------------------------------------------------------
(* The serde deserializer over a slice reader (src/src/de/mod.rs).  An Io  *)
(* is the record [reader, buffer, offset]; its buffer is a sequence of     *)
(* zero or one item, an item the record [title, offset].                   *)

Semantic(at) == [kind |-> "Semantic", at |-> at]

NewIo(reader) == [reader |-> reader, buffer |-> <<>>, offset |-> 0]

Item(title, offset) == [title |-> title, offset |-> offset]

\* Io::push
io_push(io, item) == [io EXCEPT !.buffer = <<item>>]

\* TryFrom<Prefix> for Title; Err stands for Invalid
TitleTryFromPrefix(prefix) ==
    LET major == Majors[(prefix \div 32) + 1]
        x == prefix % 32
    IN  IF x \in 24..27 THEN Ok(Title(major, NextN(Zeros(AffixLen(x)))))
        ELSE IF x = 31 THEN Ok(Title(major, More))
        ELSE IF x <= 23 THEN Ok(Title(major, This(x)))
        ELSE Err(NoErr)

\* the loop of Io::pull, its buffer being empty
RECURSIVE IoPullLoop(_, _)
IoPullLoop(io, skip_tag) ==
    LET offset == io.offset
    IN  IF io.reader = <<>> THEN Out(io, Err(Io))
        ELSE
            LET io1 == [io EXCEPT !.reader = Tail(@), !.offset = @ + 1]
                t == TitleTryFromPrefix(Head(io.reader))
            IN  IF ~t.ok THEN Out(io1, Err(Syntax(offset)))
                ELSE
                    LET n == Len(t.v.minor.b)
                        title == IF n = 0 THEN t.v
                                 ELSE Title(t.v.major, NextN(SubSeq(io1.reader, 1, n)))
                        io2 == [io1 EXCEPT !.reader = SubSeq(@, n + 1, Len(@)),
                                           !.offset = @ + n]
                    IN  IF Len(io1.reader) < n THEN Out(io1, Err(Io))
                        ELSE IF title.major # "Tag" \/ ~skip_tag
                        THEN Out(io2, Ok(Item(title, offset)))
                        ELSE IoPullLoop(io2, skip_tag)

\* Io::pull
io_pull(io, skip_tag) ==
    IF io.buffer # <<>> /\ (io.buffer[1].title.major # "Tag" \/ ~skip_tag)
    THEN Out([io EXCEPT !.buffer = <<>>], Ok(io.buffer[1]))
    ELSE IoPullLoop([io EXCEPT !.buffer = <<>>], skip_tag)

\* a conversion that reads the immediate value and drops the bytes that follow
OptionU64FromMinor_immediate(minor) ==
    IF minor.kind = "More" THEN None ELSE Some(U64(minor.x))

\* From<Minor> for Option<u64>
OptionU64FromMinor(minor) ==
    IF minor.kind = "More" THEN None
    ELSE IF minor.kind = "This" THEN Some(U64(minor.x))
    ELSE Some(Pad(8, minor.b))

\* length(): the length of a title as Option<usize>
length(title) == OptionU64FromMinor(title.minor)

BREAK == Title("Other", More)

\* read_exact of n bytes on an Io
io_read(io, n) ==
    IF Len(io.reader) < n THEN Out(io, Err(Io))
    ELSE Out([io EXCEPT !.reader = SubSeq(@, n + 1, Len(@)), !.offset = @ + n],
             Ok(SubSeq(io.reader, 1, n)))

\* the closures handed to chunked(), run on one chunk of len bytes with the
\* bytes gathered so far: "bignum" (bignum), "text" (deserialize_string) and
\* "bytes" (deserialize_byte_buf)
\* a bignum closure that stores the leading zero bytes as well
RECURSIVE BignumBytes_keep_zeros(_, _, _, _)
BignumBytes_keep_zeros(io, n, acc, offset) ==
    IF n = 0 THEN Out(io, Ok(acc))
    ELSE LET o == io_read(io, 1)
         IN  IF ~o.r.ok THEN o
             ELSE IF Len(acc) >= 16 THEN Out(o.d, Err(Semantic(offset)))
             ELSE BignumBytes_keep_zeros(o.d, n - 1, Append(acc, o.r.v[1]), offset)

RECURSIVE BignumBytes(_, _, _, _)
BignumBytes(io, n, acc, offset) ==
    IF n = 0 THEN Out(io, Ok(acc))
    ELSE LET o == io_read(io, 1)
         IN  IF ~o.r.ok THEN o
             ELSE IF acc = <<>> /\ o.r.v[1] = 0 THEN BignumBytes(o.d, n - 1, acc, offset)
             ELSE IF Len(acc) >= 16 THEN Out(o.d, Err(Semantic(offset)))
             ELSE BignumBytes(o.d, n - 1, Append(acc, o.r.v[1]), offset)

fnc(what, io, n, acc, offset) ==
    IF what = "bignum" THEN BignumBytes(io, n, acc, offset)
    ELSE LET o == io_read(io, n)
         IN  IF ~o.r.ok THEN o
             ELSE IF what = "text" /\ ValidUpTo(o.r.v, 1) # Len(o.r.v)
             THEN Out(o.d, Err(Syntax(offset)))
             ELSE Out(o.d, Ok(acc \o o.r.v))

\* the `?` operator: the rest K of a function runs on an Ok outcome o, and
\* an Err outcome is returned as it is
Try(o, K(_)) == IF o.r.ok THEN K(o) ELSE o

\* what one turn of the loop of chunked() leaves: the Io, whether chunked()
\* returns, the result it returns (the bytes gathered so far otherwise) and
\* its counter `chunked`
Turn(d, done, r, count) == [d |-> d, done |-> done, r |-> r, count |-> count]

\* the turn after fnc returned f
ChunkedCalled(f, count1) == Turn(f.d, ~f.r.ok \/ count1 = 0, f.r, count1)

\* the turn after the header was pulled with outcome p
ChunkedPulled(p, maj, what, count, acc) ==
    IF ~p.r.ok THEN Turn(p.d, TRUE, p.r, count)
    ELSE LET title == p.r.v.title
             offset == p.r.v.offset
             isbreak == count > 0 /\ title = BREAK
             count1 == IF isbreak THEN count - 1 ELSE count
         IN  IF isbreak /\ count1 = 0 THEN Turn(p.d, TRUE, Ok(acc), count1)
             ELSE IF title.major # maj THEN Turn(p.d, TRUE, Err(Syntax(offset)), count1)
             ELSE IF length(title).some
             THEN ChunkedCalled(fnc(what, p.d, ToNat(length(title).v), acc, offset), count1)
             ELSE Turn(p.d, FALSE, Ok(acc), count1 + 1)

\* a turn that counts an indefinite string within an indefinite string
\* against a limit of 256
chunked_turn_limited(io, maj, what, count, acc) ==
    IF count >= 256 THEN Turn(io, TRUE, Err([kind |-> "RecursionLimitExceeded", at |-> 0]), count)
    ELSE ChunkedPulled(io_pull(io, TRUE), maj, what, count, acc)

\* one turn of the loop of Deserializer::chunked
chunked_turn(io, maj, what, count, acc) ==
    ChunkedPulled(io_pull(io, TRUE), maj, what, count, acc)

\* Deserializer::chunked
RECURSIVE chunked(_, _, _, _, _)
ChunkedLoop(t, maj, what) ==
    IF t.done THEN Out(t.d, t.r) ELSE chunked(t.d, maj, what, t.count, t.r.v)

chunked(io, maj, what, count, acc) ==
    ChunkedLoop(chunked_turn(io, maj, what, count, acc), maj, what)

\* a bignum read that leaves the gathered bytes at their own width
de_bignum_unpadded(io) == chunked(io, "Bytes", "bignum", 0, <<>>)

\* Deserializer::bignum: the u128 read
de_bignum(io) ==
    Try(chunked(io, "Bytes", "bignum", 0, <<>>), LAMBDA c : Out(c.d, Ok(Pad(16, c.r.v))))

\* the host integer types N that Deserializer::integer is asked for: their
\* size in bytes and whether they are signed
NBytes(N) ==
    CASE N \in {"u8", "i8"} -> 1 [] N \in {"u16", "i16"} -> 2 [] N \in {"u32", "i32"} -> 4
      [] N \in {"u64", "i64"} -> 8 [] OTHER -> 16

NSigned(N) == N \in {"i8", "i16", "i32", "i64", "i128"}

\* N::try_from of the 128-bit integer x is Ok
Fits(N, x) == IF NSigned(N) THEN FitsSigned(x, NBytes(N)) ELSE FitsUnsigned(x, NBytes(N))

\* signed.try_into() of an i128 into N, in Deserializer::integer
into(N, d, signed, at) ==
    IF Fits(N, IntegerFromI128(signed)) THEN Out(d, Ok(signed))
    ELSE Out(d, Err(Semantic(at)))

\* Deserializer::integer::<N>: the value as the 16 bytes of a 128-bit integer
integer(io, N) ==
    Try(io_pull(io, FALSE), LAMBDA p :
        LET title == p.r.v.title
            offset == p.r.v.offset
            x == OptionU64FromMinor(title.minor)
        IN  IF title = Title("Tag", This(TAG_BIGPOS))
            THEN Try(de_bignum(p.d), LAMBDA b :
                     IF Fits(N, IntegerFromU128(b.r.v)) THEN b
                     ELSE Out(b.d, Err(Semantic(offset + 1))))
            ELSE IF title = Title("Tag", This(TAG_BIGNEG))
            THEN Try(de_bignum(p.d), LAMBDA b :
                     IF b.r.v[1] >= 128 THEN Out(b.d, Err(Semantic(offset + 1)))
                     ELSE into(N, b.d, Not(b.r.v), offset))
            ELSE IF title.major = "Positive"
            THEN IF ~x.some THEN Out(p.d, Err(Syntax(offset)))
                 ELSE into(N, p.d, Pad(16, x.v), offset)
            ELSE IF title.major = "Negative"
            THEN IF ~x.some THEN Out(p.d, Err(Syntax(offset)))
                 ELSE into(N, p.d, Not(Pad(16, x.v)), offset)
            ELSE Out(p.d, Err(Semantic(offset))))

\* Deserializer::float::<f64>
float(io) ==
    Try(io_pull(io, TRUE), LAMBDA p :
        LET minor == p.r.v.title.minor
        IN  IF p.r.v.title.major = "Other" /\ minor.kind = "Next2"
            THEN Out(p.d, Ok(F16ToF64(minor.b)))
            ELSE IF p.r.v.title.major = "Other" /\ minor.kind = "Next4"
            THEN Out(p.d, Ok(F32ToF64(minor.b)))
            ELSE IF p.r.v.title.major = "Other" /\ minor.kind = "Next8"
            THEN Out(p.d, Ok(minor.b))
            ELSE Out(p.d, Err(Semantic(p.r.v.offset))))

\* a result mapped through a visitor's conversion
Visit(o, F(_)) == IF o.r.ok THEN Out(o.d, Ok(F(o.r.v))) ELSE o

\* deserialize_u128 / deserialize_i128 with the Value visitor
deserialize_u128(io) == Visit(integer(io, "u128"), IntegerFromU128)
deserialize_i128(io) == Visit(integer(io, "i128"), IntegerFromI128)

\* deserialize_f64 with the Value visitor
deserialize_f64(io) == Visit(float(io), VFloat)

\* deserialize_byte_buf / deserialize_string with the Value visitor
deserialize_byte_buf(io) == Visit(chunked(io, "Bytes", "bytes", 0, <<>>), VBytes)
deserialize_string(io) == Visit(chunked(io, "Text", "text", 0, <<>>), VText)

\* deserialize_bool with the Value visitor
deserialize_bool(io) ==
    Try(io_pull(io, TRUE), LAMBDA p :
        IF p.r.v.title = Title("Other", This(SIMPLE_FALSE)) THEN Out(p.d, Ok(Bool(FALSE)))
        ELSE IF p.r.v.title = Title("Other", This(SIMPLE_TRUE)) THEN Out(p.d, Ok(Bool(TRUE)))
        ELSE Out(p.d, Err(Semantic(p.r.v.offset))))

\* an access that takes every container for an indefinite-length one
NewAccess_indefinite(io, major) ==
    Try(io_pull(io, TRUE), LAMBDA p :
        IF p.r.v.title.major # major THEN Out(p.d, Err(Semantic(p.r.v.offset)))
        ELSE Out(p.d, Ok([some |-> FALSE, len |-> 0, count |-> 0])))

\* Deserializer::new: the access [some, len, count] to an Array or a Map
NewAccess(io, major) ==
    Try(io_pull(io, TRUE), LAMBDA p :
        IF p.r.v.title.major # major THEN Out(p.d, Err(Semantic(p.r.v.offset)))
        ELSE Out(p.d, Ok([some |-> length(p.r.v.title).some,
                          len |-> IF length(p.r.v.title).some
                                  THEN ToNat(length(p.r.v.title).v) ELSE 0,
                          count |-> 0])))

\* the head of next_element_seed and of next_key_seed: is there a next item,
\* and the access after the question
HasNext(io, acc) ==
    IF acc.some
    THEN IF acc.count >= acc.len THEN Out(io, Ok([more |-> FALSE, acc |-> acc]))
         ELSE Out(io, Ok([more |-> TRUE, acc |-> [acc EXCEPT !.count = @ + 1]]))
    ELSE Try(io_pull(io, TRUE), LAMBDA p :
             IF p.r.v.title = BREAK THEN Out(p.d, Ok([more |-> FALSE, acc |-> acc]))
             ELSE Out(io_push(p.d, p.r.v), Ok([more |-> TRUE, acc |-> acc])))

\* deserialize_any with the Value visitor, and the visitor's visit_seq and
\* visit_map over SeqAccess / MapAccess
RECURSIVE deserialize_any(_)
RECURSIVE visit_seq(_, _, _)
RECURSIVE visit_map(_, _, _)

deserialize_option(io) ==
    Try(io_pull(io, TRUE), LAMBDA p :
        IF p.r.v.title \in {Title("Other", This(SIMPLE_UNDEFINED)),
                            Title("Other", This(SIMPLE_NULL))}
        THEN Out(p.d, Ok(Null))
        ELSE deserialize_any(io_push(p.d, p.r.v)))

deserialize_seq(io) ==
    Try(NewAccess(io, "Array"), LAMBDA a : visit_seq(a.d, a.r.v, <<>>))

deserialize_map(io) ==
    Try(NewAccess(io, "Map"), LAMBDA a : visit_map(a.d, a.r.v, <<>>))

visit_seq(io, acc, seq) ==
    Try(HasNext(io, acc), LAMBDA h :
        IF ~h.r.v.more THEN Out(h.d, Ok(Array(seq)))
        ELSE Try(deserialize_any(h.d), LAMBDA e :
                 visit_seq(e.d, h.r.v.acc, Append(seq, e.r.v))))

visit_map(io, acc, map) ==
    Try(HasNext(io, acc), LAMBDA h :
        IF ~h.r.v.more THEN Out(h.d, Ok(Map(map)))
        ELSE Try(deserialize_any(h.d), LAMBDA k :
                 Try(deserialize_any(k.d), LAMBDA v :
                     visit_map(v.d, h.r.v.acc, map \o <<k.r.v, v.r.v>>))))

\* the arm of deserialize_any that the pulled title selects
dispatch(io1, title, offset) ==
    IF title = Title("Tag", This(TAG_BIGPOS)) THEN deserialize_u128(io1)
    ELSE IF title = Title("Tag", This(TAG_BIGNEG)) THEN deserialize_i128(io1)
    ELSE IF title.major = "Positive" THEN deserialize_u128(io1)
    ELSE IF title.major = "Negative" THEN deserialize_i128(io1)
    ELSE IF title.major = "Bytes" THEN deserialize_byte_buf(io1)
    ELSE IF title.major = "Text" THEN deserialize_string(io1)
    ELSE IF title.major = "Array" THEN deserialize_seq(io1)
    ELSE IF title.major = "Map" THEN deserialize_map(io1)
    ELSE IF title.major = "Other" /\ title.minor.kind \in {"Next2", "Next4", "Next8"}
    THEN deserialize_f64(io1)
    ELSE IF title.major = "Other" /\ title.minor \in {This(SIMPLE_FALSE), This(SIMPLE_TRUE)}
    THEN deserialize_bool(io1)
    ELSE IF title.major = "Other"
            /\ title.minor \in {This(SIMPLE_UNDEFINED), This(SIMPLE_NULL)}
    THEN deserialize_option(io1)
    ELSE IF title.major = "Tag" THEN Try(io_pull(io1, FALSE), LAMBDA q : deserialize_any(q.d))
    ELSE Out(io1, Err(Semantic(offset)))

deserialize_any(io) ==
    Try(io_pull(io, FALSE), LAMBDA p : dispatch(io_push(p.d, p.r.v), p.r.v.title, p.r.v.offset))

\* de::from_reader::<Value>
from_reader(reader) == deserialize_any(NewIo(reader)).r

\* de::from_reader::<i128>
from_reader_i128(reader) == integer(NewIo(reader), "i128").r

----------------------------------------------------------------------------
(* Headers through Encoder::encode and back through Decoder::pull.         *)

\* u64 values around every width boundary: 0, 23, 24, and for each byte
\* count 1..8 the values 0x01 00.., 0x01 ff.., 0xff 00.., 0xff ff..
U64Samples ==
    {U64(0), U64(23), U64(24)}
    \cup {Pad(8, <<lead>> \o [i \in 1..(w - 1) |-> fill]) :
            w \in 1..8, lead \in {1, 255}, fill \in {0, 255}}

\* 0.0, -0.0, 1.0, 1.1, 65504.0, 100000.0, +inf, NaN, 2^-24
F64Samples ==
    { <<0, 0, 0, 0, 0, 0, 0, 0>>, <<128, 0, 0, 0, 0, 0, 0, 0>>,
      <<63, 240, 0, 0, 0, 0, 0, 0>>, <<63, 241, 153, 153, 153, 153, 153, 154>>,
      <<64, 239, 252, 0, 0, 0, 0, 0>>, <<64, 248, 106, 0, 0, 0, 0, 0>>,
      <<127, 240, 0, 0, 0, 0, 0, 0>>, <<127, 248, 0, 0, 0, 0, 0, 0>>,
      <<62, 112, 0, 0, 0, 0, 0, 0>> }

HeaderSamples ==
    {Hdr(t, TRUE, v) : t \in {"Positive", "Negative", "Tag", "Bytes", "Text", "Array", "Map"},
                       v \in U64Samples}
    \cup {NoneLen(t) : t \in {"Bytes", "Text", "Array", "Map"}}
    \cup {Break}
    \cup {Simple(x) : x \in Byte}
    \cup {Float(f) : f \in F64Samples}

NoOut == Out(Decoder(<<>>), Err(NoErr))

InitHdr ==
    /\ phase = "header"
    /\ stack = <<>>
    /\ arg \in HeaderSamples
    /\ wire = <<>>
    /\ back = [skip_tag |-> FALSE, out |-> NoOut]
    /\ dec = Decoder(<<>>)
    /\ segs = NoSegs
    /\ seg = NoSeg
    /\ ret = Err(NoErr)

\* Encoder::from(Vec::new()).encode(header)
HdrEncode ==
    /\ phase = "header"
    /\ UNCHANGED stack
    /\ wire' = encode(arg)
    /\ phase' = "encoded"
    /\ UNCHANGED <<arg, back, dec, segs, seg, ret>>

\* Decoder::from(&wire[..]).pull(skip_tag) as a Header
HdrDecode ==
    /\ phase = "encoded"
    /\ UNCHANGED stack
    /\ \E skip_tag \in BOOLEAN :
          back' = [skip_tag |-> skip_tag, out |-> HeaderPull(Decoder(wire), skip_tag)]
    /\ phase' = "decoded"
    /\ UNCHANGED <<arg, wire, dec, segs, seg, ret>>

NextHdr == HdrEncode \/ HdrDecode

SpecHdr == InitHdr /\ [][NextHdr]_vars

\* Simple values 24..31 are the reserved ones
Reserved(h) == h.tag = "Simple" /\ h.v[1] \in 24..31

\* C3: every header other than a Float and a reserved Simple, once encoded and
\* pulled again (tags not skipped), comes back equal to the header encoded,
\* with the whole encoding consumed; a header that is no Tag comes back equal
\* when tags are skipped, too.
C3_HeaderRoundTrip ==
    (/\ phase = "decoded"
     /\ arg.tag # "Float"
     /\ ~Reserved(arg)
     /\ (back.skip_tag => arg.tag # "Tag"))
    => /\ back.out.r.ok
       /\ back.out.r.v = arg
       /\ back.out.d.reader = <<>>
       /\ back.out.d.offset = Len(wire)

\* a definite Map length of more than 32 bits came back
C3_Witness ==
    /\ phase = "decoded"
    /\ arg.tag = "Map" /\ arg.some /\ Len(wire) = 9
    /\ back.out.r.ok /\ back.out.r.v = arg

\* the number of bytes the shortest-width rule gives a u64: by the count of
\* its significant bytes
ShortestLen(v) ==
    LET n == 8 - LeadingZeros(v)
    IN  IF n = 0 \/ (n = 1 /\ v[8] < 24) THEN 1
        ELSE IF n = 1 THEN 2
        ELSE IF n = 2 THEN 3
        ELSE IF n <= 4 THEN 5
        ELSE 9

\* C4: Positive(v), Negative(v), Tag(v) and the definite lengths of Bytes, Text,
\* Array and Map are written in 1 byte below 24, 2 below 2^8, 3 below 2^16,
\* 5 below 2^32 and 9 otherwise.
C4_ShortestWidth ==
    (/\ phase # "header"
     /\ arg.tag \in {"Positive", "Negative", "Tag", "Bytes", "Text", "Array", "Map"}
     /\ arg.some)
    => Len(wire) = ShortestLen(arg.v)

\* Positive(23) took one byte, and some Tag took three
C4_Witness ==
    /\ phase = "encoded"
    /\ \/ arg = Positive(U64(23)) /\ Len(wire) = 1
       \/ arg.tag = "Tag" /\ Len(wire) = 3

----------------------------------------------------------------------------
(* The Decoder driven by a caller over a slice reader (&[u8], whose        *)
(* read_exact fails at the end of input without consuming).                *)

\* prefixes of headers: 00 Positive(0), 18 Positive + 1 byte, 1c reserved
\* minor 28, 1f Positive + indefinite, c0 Tag(0), df Tag + indefinite, ff Break
HeaderBytes == {0, 24, 28, 31, 192, 223, 255}

\* strings: 41 / 61 one-byte Bytes / Text, 5f / 7f indefinite, ff Break,
\* 00 a payload byte, c3 the lead byte of a two-byte scalar value
StringBytes == {0, 65, 95, 97, 127, 195, 255}

RECURSIVE SeqsUpTo(_, _)
SeqsUpTo(S, n) ==
    IF n = 0 THEN {<<>>}
    ELSE LET shorter == SeqsUpTo(S, n - 1)
         IN  shorter \cup {Append(q, x) : q \in {t \in shorter : Len(t) = n - 1}, x \in S}

Inputs == SeqsUpTo(HeaderBytes, MaxInput) \cup SeqsUpTo(StringBytes, MaxInput)

NoBack == [skip_tag |-> FALSE, out |-> NoOut]

\* what the caller learnt from its last call: the call, the position in the
\* input and the decoder's offset when it was made, and its result
Ret(op, skip_tag, d, r) ==
    [op |-> op, skip_tag |-> skip_tag, start |-> Len(arg) - Len(d.reader),
     offset0 |-> d.offset, buffered |-> d.buffer # <<>>, r |-> r]

Init ==
    /\ phase = "decoder"
    /\ stack = <<>>
    /\ arg \in Inputs
    /\ wire = <<>>
    /\ back = NoBack
    /\ dec = Decoder(arg)
    /\ segs = NoSegs
    /\ seg = NoSeg
    /\ ret = [op |-> "from", skip_tag |-> FALSE, start |-> 0, offset0 |-> 0,
              buffered |-> FALSE, r |-> Ok(<<>>)]

\* Itemizer<Header>::pull(skip_tag)
Pull ==
    /\ phase = "decoder" /\ ~segs.active
    /\ UNCHANGED stack
    /\ \E skip_tag \in BOOLEAN :
          LET o == HeaderPull(dec, skip_tag)
          IN  /\ dec' = o.d
              /\ ret' = Ret("pull", skip_tag, dec, o.r)
    /\ UNCHANGED <<phase, arg, wire, back, segs, seg>>

\* Itemizer<Header>::peek(skip_tag)
Peek ==
    /\ phase = "decoder" /\ ~segs.active
    /\ UNCHANGED stack
    /\ \E skip_tag \in BOOLEAN :
          LET o == HeaderPeek(dec, skip_tag)
          IN  /\ dec' = o.d
              /\ ret' = Ret("peek", skip_tag, dec, o.r)
    /\ UNCHANGED <<phase, arg, wire, back, segs, seg>>

\* Decoder::dump
Dump ==
    /\ phase = "decoder" /\ ~segs.active
    /\ UNCHANGED stack
    /\ dec' = dump(dec)
    /\ ret' = Ret("dump", FALSE, dec, Ok(<<>>))
    /\ UNCHANGED <<phase, arg, wire, back, segs, seg>>

\* Decoder::bytes(len, buf) / Decoder::text(len, buf), called as bigint calls
\* it: with the length of the Bytes / Text header just pulled
StartSegments ==
    /\ phase = "decoder" /\ ~segs.active
    /\ UNCHANGED stack
    /\ ret.op = "pull" /\ ret.r.ok /\ ret.r.v.tag \in {"Bytes", "Text"}
    /\ \E buflen \in 1..ScratchLen :
          segs' = NewSegments(ret.r.v.tag = "Text", buflen)
    /\ dec' = push(dec, TitleFromHeader(ret.r.v))
    /\ ret' = Ret("segments", FALSE, dec, Ok(<<>>))
    /\ UNCHANGED <<phase, arg, wire, back, seg>>

\* a failed assert!
Panic == [kind |-> "Panic", at |-> 0]

\* Decoder::bytes(len, buf) / Decoder::text(len, buf) called while the slot
\* holds a header (after a peek): the assert! of Decoder::push fails, the call
\* panics and no Segments is made
StartBuffered ==
    /\ phase = "decoder" /\ ~segs.active
    /\ UNCHANGED stack
    /\ dec.buffer # <<>>
    /\ \E h \in {NoneLen("Bytes"), SomeLen("Bytes", U64(1)),
                  NoneLen("Text"), SomeLen("Text", U64(1))} :
          dec' = push(dec, TitleFromHeader(h))
    /\ ret' = Ret("segments", FALSE, dec, Err(Panic))
    /\ phase' = "panicked"
    /\ UNCHANGED <<arg, wire, back, segs, seg>>

\* Segments::next
NextSegment ==
    /\ phase = "decoder" /\ segs.active /\ ~seg.active
    /\ UNCHANGED stack
    /\ LET o == SegmentsNext(dec, segs)
       IN  /\ dec' = o.d
           /\ segs' = o.segs
           /\ seg' = o.seg
           /\ ret' = Ret("segment", FALSE, dec, o.r)
    /\ UNCHANGED <<phase, arg, wire, back>>

\* Segment::next
NextChunk ==
    /\ phase = "decoder" /\ seg.active
    /\ UNCHANGED stack
    /\ LET o == SegmentNext(dec, seg, segs.text, segs.buflen)
       IN  /\ dec' = o.d
           /\ seg' = o.seg
           /\ ret' = Ret("chunk", FALSE, dec, o.r)
    /\ UNCHANGED <<phase, arg, wire, back, segs>>

\* the Segment goes out of scope
DropSegment ==
    /\ phase = "decoder" /\ seg.active
    /\ UNCHANGED stack
    /\ seg' = NoSeg
    /\ UNCHANGED <<phase, arg, wire, back, dec, segs, ret>>

\* the Segments goes out of scope
DropSegments ==
    /\ phase = "decoder" /\ segs.active /\ ~seg.active
    /\ UNCHANGED stack
    /\ segs' = NoSegs
    /\ UNCHANGED <<phase, arg, wire, back, dec, seg, ret>>

Next ==
    \/ Pull \/ Peek \/ Dump \/ StartSegments \/ StartBuffered
    \/ NextSegment \/ NextChunk \/ DropSegment \/ DropSegments

Spec == Init /\ [][Next]_vars

\* a prefix byte no header may start with: minor 28, 29 or 30, or minor 31
\* under Positive, Negative or Tag
MalformedPrefix(p) ==
    \/ p % 32 \in 28..30
    \/ p % 32 = 31 /\ p \div 32 \in {0, 1, 6}

\* the offset in the input of the first malformed header that a pull begun at
\* offset pos meets (it passes well-formed tags when it skips them); -1 if none
RECURSIVE MalformedAt(_, _)
MalformedAt(pos, skip_tag) ==
    IF pos >= Len(arg) THEN -1
    ELSE LET p == arg[pos + 1]
             next == pos + 1 + AffixLen(p % 32)
         IN  IF MalformedPrefix(p) THEN pos
             ELSE IF skip_tag /\ p \div 32 = 6 /\ next <= Len(arg)
             THEN MalformedAt(next, skip_tag)
             ELSE -1

\* C8: a pull or peek that reads from the stream (nothing buffered, the offset
\* counter in step with the input) and meets a malformed header fails with
\* Syntax(k), k the offset of that header's prefix byte.
C8_MalformedHeaderOffset ==
    (/\ ret.op \in {"pull", "peek"}
     /\ ~ret.buffered
     /\ ret.offset0 = ret.start
     /\ MalformedAt(ret.start, ret.skip_tag) >= 0)
    => /\ ~ret.r.ok
       /\ ret.r.e = Syntax(MalformedAt(ret.start, ret.skip_tag))

\* C8 with tags never skipped
C8_NoSkip ==
    ret.skip_tag = FALSE => C8_MalformedHeaderOffset

\* C10: the nesting counter of a Segments never exceeds 1.
C10_NoNestedIndefinite ==
    segs.active => segs.nested <= 1

\* the encoded size of the header in the lookahead slot, 0 for an empty slot
SlotSize(d) == IF d.buffer = <<>> THEN 0 ELSE Len(d.buffer[1].minor.b) + 1

\* C15: the slot never holds more than one header, and a push onto an
\* occupied slot (Decoder::bytes / Decoder::text after a peek) fails and
\* leaves the buffered header, and the rest of the decoder, as they were.
C15_PushOccupiedRejected ==
    /\ [](Len(dec.buffer) <= 1)
    /\ [][dec.buffer # <<>> /\ ret' # ret /\ ret'.op = "segments"
              => dec' = dec /\ ~ret'.r.ok]_vars

\* a header was peeked, and the push that followed was refused
C15_Witness ==
    /\ phase = "panicked" /\ ret.op = "segments" /\ ret.buffered /\ ~ret.r.ok
    /\ dec.buffer # <<>>

\* C16: the offset counter is the number of bytes taken from the reader less
\* the encoded size of the header in the slot, which is where the next
\* header that pull returns begins.
C16_OffsetTracksInput ==
    dec.offset = (Len(arg) - Len(dec.reader)) - SlotSize(dec)

\* every call but a dump of a buffered header keeps the counter in step
C16_OnlyDumpDrifts ==
    [][dec.offset = (Len(arg) - Len(dec.reader)) - SlotSize(dec)
         /\ ~(ret'.op = "dump" /\ dec.buffer # <<>>)
       => dec'.offset = (Len(arg') - Len(dec'.reader)) - SlotSize(dec')]_vars

----------------------------------------------------------------------------
(* Values through ser::into_writer and back through de::from_reader.       *)

\* u128 magnitudes around every width boundary up to 2^128 - 1
U128Samples ==
    {Pad(16, <<0>>), Pad(16, <<23>>), Pad(16, <<24>>)}
    \cup {Pad(16, <<lead>> \o [i \in 1..(w - 1) |-> fill]) :
            w \in {1, 2, 3, 4, 5, 8, 9, 15, 16}, lead \in {1, 127, 128, 255}, fill \in {0, 255}}

\* every Integer that From builds: (true, any u128) and (false, a negative i128)
IntegerSamples ==
    {IntegerFromU128(v) : v \in U128Samples}
    \cup {IntegerFromI128(Not(v)) : v \in {u \in U128Samples : u[1] < 128}}

\* "", "a", "é", "€a"
TextSamples == {<<>>, <<97>>, <<195, 169>>, <<226, 130, 172, 97>>}

BytesSamples == {<<>>, <<0>>, <<255, 0>>, [i \in 1..24 |-> i]}

Leaves ==
    IntegerSamples
    \cup {VBytes(b) : b \in BytesSamples}
    \cup {VText(t) : t \in TextSamples}
    \cup {Bool(TRUE), Bool(FALSE), Null}

\* the leaves that containers are filled with
SmallLeaves ==
    {Integer(TRUE, Pad(16, <<1>>)), Integer(FALSE, Not(Pad(16, <<0>>))),
     VText(<<97>>), Null}

\* the containers of up to MaxItems elements / entries over SmallLeaves
Wide ==
    {Array(q) : q \in SeqsUpTo(SmallLeaves, MaxItems)}
    \cup {Map(q) : q \in {t \in SeqsUpTo(SmallLeaves, 2 * MaxItems) : Len(t) % 2 = 0}}

\* nested containers: a Value of the level below as the only element, as the
\* second element, as a value and as a key
RECURSIVE Deep(_)
Deep(d) ==
    IF d = 0 THEN SmallLeaves \cup {Array(<<>>), Map(<<>>)}
    ELSE LET below == Deep(d - 1)
         IN  below
             \cup {Array(<<x>>) : x \in below}
             \cup {Array(<<Null, x>>) : x \in below}
             \cup {Map(<<VText(<<97>>), x>>) : x \in below}
             \cup {Map(<<x, Bool(TRUE)>>) : x \in below}

ValueSamples == Leaves \cup Wide \cup Deep(MaxDepth)

InitCodec ==
    /\ phase = "value"
    /\ stack = <<>>
    /\ arg \in ValueSamples
    /\ wire = <<>>
    /\ back = Err(NoErr)
    /\ dec = Decoder(<<>>)
    /\ segs = NoSegs
    /\ seg = NoSeg
    /\ ret = Err(NoErr)

\* ser::into_writer(&value, Vec::new())
Write ==
    /\ phase = "value"
    /\ UNCHANGED stack
    /\ wire' = into_writer(arg)
    /\ phase' = "written"
    /\ UNCHANGED <<arg, back, dec, segs, seg, ret>>

\* de::from_reader::<Value, _>(&wire[..])
Read ==
    /\ phase \in {"written", "bytes"}
    /\ UNCHANGED stack
    /\ back' = from_reader(wire)
    /\ phase' = "read"
    /\ UNCHANGED <<arg, wire, dec, segs, seg, ret>>

NextCodec == Write \/ Read

SpecCodec == InitCodec /\ [][NextCodec]_vars

\* C1: every Value of integers, byte strings, text strings, booleans, null and
\* nested arrays and maps comes back from from_reader(into_writer(v)) as Ok
\* of an equal Value, elements and entries (duplicate keys too) in order.
C1_ValueRoundTrip ==
    phase = "read" => back.ok /\ back.v = arg

\* a map with a duplicate key and a bignum made the round trip
C1_Witness ==
    /\ phase = "read" /\ back.ok /\ back.v = arg
    /\ \/ /\ arg.k = "Map" /\ Len(arg.items) = 4
          /\ arg.items[1] = arg.items[3] /\ arg.items[2] # arg.items[4]
       \/ arg.k = "Integer" /\ ~arg.b /\ Len(wire) = 18

----------------------------------------------------------------------------
(* A Break where a data item is expected.                                   *)

\* n complete data items: the integer 0, n times
Items(n) == [i \in 1..n |-> 0]

\* what can stand between an item position and the next one inside it: the
\* header of a definite-length array or map and fewer items than it declares,
\* the header of an indefinite-length map and an odd number of items, a tag
Openers ==
    {<<128 + n>> \o Items(j) : n \in 1..MaxItems, j \in 0..(MaxItems - 1)}
    \cup {<<160 + n>> \o Items(j) : n \in 1..MaxItems, j \in 0..(2 * MaxItems - 1)}
    \cup {<<191>> \o Items(2 * i - 1) : i \in 1..MaxItems}
    \cup {<<192>>}

\* the definite-length openers, met as an element of an indefinite-length array
InIndefinite ==
    {<<159>> \o o : o \in {q \in Openers : q[1] \in 128..183 /\ Len(q) = 1}}

WellFormedOpener(o) ==
    \/ o[1] \in 128..151 /\ Len(o) - 1 < o[1] - 128
    \/ o[1] \in 160..183 /\ Len(o) - 1 < 2 * (o[1] - 160)
    \/ o[1] \in {191, 192}
    \/ o[1] = 159 /\ \/ o[2] \in 128..151 /\ Len(o) - 2 < o[2] - 128
                     \/ o[2] \in 160..183 /\ Len(o) - 2 < 2 * (o[2] - 160)

\* the inputs that reach an item position at most d containers deep
RECURSIVE Expecting(_)
Expecting(d) ==
    IF d = 0 THEN {<<>>}
    ELSE LET below == Expecting(d - 1)
         IN  below \cup {p \o o : p \in below,
                                  o \in {q \in Openers \cup InIndefinite : WellFormedOpener(q)}}

\* a Break at an item position, and what may follow it
BreakInputs ==
    {p \o <<255>> \o rest : p \in Expecting(BreakDepth), rest \in {<<>>, <<0>>}}

InitBreak ==
    /\ phase = "bytes"
    /\ stack = <<>>
    /\ arg = <<>>
    /\ wire \in BreakInputs
    /\ back = Err(NoErr)
    /\ dec = Decoder(<<>>)
    /\ segs = NoSegs
    /\ seg = NoSeg
    /\ ret = Err(NoErr)

NextBreak == Read

SpecBreak == InitBreak /\ [][NextBreak]_vars

\* C9: a Break where a data item is expected (at top level, as an element or
\* entry of a definite-length array or map, in the value position of an
\* indefinite-length map) is a Semantic error, never the end of a container.
C9_BreakIsSemantic ==
    phase = "read" => ~back.ok /\ back.e.kind = "Semantic"

\* bf 00 ff was read: the Break stands for the value of the first entry
C9_Witness ==
    phase = "read" /\ wire = <<191, 0, 255>> /\ ~back.ok /\ back.e.kind = "Semantic"

----------------------------------------------------------------------------
(* 128-bit integers through Serializer::serialize_i128                     *)
(* (src/ciborium/src/ser/mod.rs) and back through from_reader::<i128>.     *)

\* Serializer::serialize_i128 over a Vec<u8>
Serializer_serialize_i128(v) ==
    LET tag == IF IsNegative(v) THEN TAG_BIGNEG ELSE TAG_BIGPOS
        raw == IF IsNegative(v) THEN Not(v) ELSE v
        slice == SkipZeros(raw)
    IN  IF IsZero(SubSeq(raw, 1, 8))
        THEN encode(IF tag = TAG_BIGPOS THEN Positive(Low(8, raw)) ELSE Negative(Low(8, raw)))
        ELSE encode(Tag(U64(tag))) \o encode(SomeLen("Bytes", U64(Len(slice)))) \o slice

\* i128 values as 16 two's complement bytes, around 0, 2^64 and 2^127
I128Samples ==
    LET positive == {u \in U128Samples : u[1] < 128}
    IN  positive \cup {Not(u) : u \in positive}

InitBignum ==
    /\ phase = "i128"
    /\ stack = <<>>
    /\ arg \in I128Samples
    /\ wire = <<>>
    /\ back = Err(NoErr)
    /\ dec = Decoder(<<>>)
    /\ segs = NoSegs
    /\ seg = NoSeg
    /\ ret = Err(NoErr)

\* ser::into_writer(&v, Vec::new()) of an i128
WriteI128 ==
    /\ phase = "i128"
    /\ UNCHANGED stack
    /\ wire' = Serializer_serialize_i128(arg)
    /\ phase' = "written"
    /\ UNCHANGED <<arg, back, dec, segs, seg, ret>>

\* de::from_reader::<i128, _>(&wire[..])
ReadI128 ==
    /\ phase = "written"
    /\ UNCHANGED stack
    /\ back' = from_reader_i128(wire)
    /\ phase' = "read"
    /\ UNCHANGED <<arg, wire, dec, segs, seg, ret>>

NextBignum == WriteI128 \/ ReadI128

SpecBignum == InitBignum /\ [][NextBignum]_vars

\* the magnitude a bignum carries: v, and -1 - v for a negative v
Magnitude(v) == IF IsNegative(v) THEN Not(v) ELSE v

\* |v| >= 2^64
AbsAtLeast2p64(v) ==
    \/ ~IsZero(SubSeq(Magnitude(v), 1, 8))
    \/ IsNegative(v) /\ Low(8, Magnitude(v)) = [i \in 1..8 |-> 255]

\* Tag(2) or Tag(3), a definite-length byte string header, and the magnitude
\* without leading zero bytes
BignumForm(v) ==
    LET m == SkipZeros(Magnitude(v))
    IN  <<IF IsNegative(v) THEN 195 ELSE 194, 64 + Len(m)>> \o m

\* C5 as stated: every i128 v with |v| >= 2^64 is emitted as Tag(2) or Tag(3)
\* and the magnitude bytes, and decodes back to v.
C5_BignumAbs ==
    phase = "read" /\ AbsAtLeast2p64(arg)
        => wire = BignumForm(arg) /\ back.ok /\ back.v = arg

\* C5: every i128 v whose magnitude (v, and -1 - v for a negative v) is at
\* least 2^64, that is v >= 2^64 or v <= -2^64 - 1, is emitted as Tag(2) or
\* Tag(3) and the magnitude bytes without a leading zero, and decodes back
\* to v.
C5_BignumMagnitude ==
    phase = "read" /\ ~IsZero(SubSeq(Magnitude(arg), 1, 8))
        => wire = BignumForm(arg) /\ back.ok /\ back.v = arg

\* -2^64 - 1 made the round trip as c3 49 01 00 00 00 00 00 00 00 00
C5_Witness ==
    /\ phase = "read" /\ back.ok /\ back.v = arg
    /\ wire = <<195, 73, 1, 0, 0, 0, 0, 0, 0, 0, 0>>

----------------------------------------------------------------------------
(* The recursion of from_reader::<Value>, one call at a time.  Every        *)
(* deserialize_seq / deserialize_map builds an access (Deserializer::new)   *)
(* and calls the visitor's visit_seq / visit_map, which calls               *)
(* deserialize_any for every element: `stack` holds one frame               *)
(* [kind, acc, items] per visit_seq / visit_map call in progress, `dec`     *)
(* the Io.                                                                  *)

\* the limit on nested containers that the specification gives
RecursionLimit == 256

Frame(kind, acc) == [kind |-> kind, acc |-> acc, items |-> <<>>]

\* the title deserialize_any dispatches on: its loop skips every tag other
\* than the two bignum tags; the Io afterwards holds the item pushed back
RECURSIVE Upcoming(_)
Upcoming(io) ==
    Try(io_pull(io, FALSE), LAMBDA p :
        IF /\ p.r.v.title.major = "Tag"
           /\ p.r.v.title \notin {Title("Tag", This(TAG_BIGPOS)), Title("Tag", This(TAG_BIGNEG))}
        THEN Try(io_pull(io_push(p.d, p.r.v), FALSE), LAMBDA q : Upcoming(q.d))
        ELSE Out(io_push(p.d, p.r.v), Ok(p.r.v)))

\* next_element_seed / next_key_seed / next_value_seed of the innermost
\* call: is an item to be deserialized next?  At top level and in the value
\* position of a map one always is.
Expect(io, frames) ==
    IF frames = <<>> THEN Out(io, Ok([more |-> TRUE, acc |-> <<>>]))
    ELSE LET top == frames[Len(frames)]
         IN  IF top.kind = "Map" /\ Len(top.items) % 2 = 1
             THEN Out(io, Ok([more |-> TRUE, acc |-> top.acc]))
             ELSE HasNext(io, top.acc)

\* the frames after the innermost call took the answer of Expect
Asked(frames, acc) ==
    IF frames = <<>> THEN frames
    ELSE [frames EXCEPT ![Len(frames)].acc = acc]

\* the frames after the innermost call was handed the Value v
Deliver(frames, v) ==
    [frames EXCEPT ![Len(frames)].items = Append(@, v)]

\* n nested containers: 9f.., bf.., 81.., a1.. and the tail that follows
Nested(n, opener) == [i \in 1..n |-> opener]

Depths == {1, 2, 3} \cup (RecursionLimit - 1)..(RecursionLimit + MaxBeyond)

\* sibling containers inside one array: 9f 80 80 .. 80 ff
Siblings(n) == <<159>> \o [i \in 1..n |-> 128] \o <<255>>

DepthInputs ==
    {Nested(n, opener) : n \in Depths, opener \in {159, 191, 129}}
    \cup {Nested(n, 129) \o <<0>> : n \in Depths}
    \cup {Nested(n, 159) \o Nested(n, 255) : n \in {1, 2, 3}}
    \cup {<<161, 129, 0, 191, 0, 159, 255, 255>>, <<130, 194, 65, 1, 192, 128>>}
    \cup {Siblings(n) : n \in {2, RecursionLimit + MaxBeyond}}

InitDepth ==
    /\ phase = "reading"
    /\ stack = <<>>
    /\ arg = <<>>
    /\ wire \in DepthInputs
    /\ back = Err(NoErr)
    /\ dec = NewIo(wire)
    /\ segs = NoSegs
    /\ seg = NoSeg
    /\ ret = Err(NoErr)

\* what the innermost call does next, from the item that follows the answer
\* acc of Expect: fail, enter an Array or a Map, or visit a scalar
AheadItem(acc, u) ==
    IF ~u.r.ok THEN [step |-> "fail", d |-> u.d, acc |-> acc, r |-> u.r]
    ELSE IF u.r.v.title.major \in {"Array", "Map"}
    THEN [step |-> "enter", d |-> u.d, acc |-> acc, r |-> Ok(u.r.v.title.major)]
    ELSE [step |-> "scalar", d |-> u.d, acc |-> acc, r |-> Ok(u.r.v.title.major)]

\* what the innermost call does next, from the answer h of Expect
AheadOf(h) ==
    IF ~h.r.ok THEN [step |-> "fail", d |-> h.d, acc |-> <<>>, r |-> h.r]
    ELSE IF ~h.r.v.more THEN [step |-> "leave", d |-> h.d, acc |-> h.r.v.acc, r |-> h.r]
    ELSE AheadItem(h.r.v.acc, Upcoming(h.d))

Ahead(io, frames) == AheadOf(Expect(io, frames))

\* deserialize_seq / deserialize_map: build the access and call visit_seq /
\* visit_map, one frame deeper
EnterContainer ==
    /\ phase = "reading"
    /\ Ahead(dec, stack).step = "enter"
    /\ LET a == Ahead(dec, stack)
           n == NewAccess(a.d, a.r.v)
       IN  /\ dec' = n.d
           /\ stack' = Append(Asked(stack, a.acc), Frame(a.r.v, n.r.v))
    /\ UNCHANGED <<phase, arg, wire, back, segs, seg, ret>>

\* the outcome e of deserialize_any on a scalar: an error ends the read, a
\* Value ends it at top level and joins the innermost container otherwise
Land(acc, e) ==
    /\ dec' = e.d
    /\ IF ~e.r.ok \/ stack = <<>>
       THEN back' = e.r /\ phase' = "done" /\ stack' = <<>>
       ELSE back' = back /\ phase' = phase /\ stack' = Deliver(Asked(stack, acc), e.r.v)
    /\ UNCHANGED <<arg, wire, segs, seg, ret>>

\* deserialize_any on an item that is no Array and no Map
VisitScalar ==
    /\ phase = "reading"
    /\ Ahead(dec, stack).step = "scalar"
    /\ Land(Ahead(dec, stack).acc, deserialize_any(Ahead(dec, stack).d))

\* visit_seq / visit_map return: no element is left, the container is built
LeaveContainer ==
    /\ phase = "reading"
    /\ Ahead(dec, stack).step = "leave"
    /\ LET top == stack[Len(stack)]
           v == IF top.kind = "Array" THEN Array(top.items) ELSE Map(top.items)
       IN  /\ dec' = Ahead(dec, stack).d
           /\ IF Len(stack) = 1
              THEN back' = Ok(v) /\ phase' = "done" /\ stack' = <<>>
              ELSE /\ back' = back /\ phase' = phase
                   /\ stack' = Deliver(SubSeq(stack, 1, Len(stack) - 1), v)
    /\ UNCHANGED <<arg, wire, segs, seg, ret>>

\* an Err from pull, met by an access or by deserialize_any, unwinds every call
FailRead ==
    /\ phase = "reading"
    /\ Ahead(dec, stack).step = "fail"
    /\ dec' = Ahead(dec, stack).d
    /\ back' = Ahead(dec, stack).r
    /\ phase' = "done"
    /\ stack' = <<>>
    /\ UNCHANGED <<arg, wire, segs, seg, ret>>

NextDepth == EnterContainer \/ VisitScalar \/ LeaveContainer \/ FailRead

SpecDepth == InitDepth /\ [][NextDepth]_vars

\* the calls taken one at a time return what from_reader returns
DepthAgrees ==
    phase = "done" /\ Len(wire) <= 8 => back = from_reader(wire)

\* the number of containers the input opens before anything else
RECURSIVE Opened(_)
Opened(bytes) ==
    IF bytes # <<>> /\ Head(bytes) \in {129, 159, 191} THEN 1 + Opened(Tail(bytes)) ELSE 0

\* C6: the deserializer never goes more than 256 arrays or maps deep: input
\* nested deeper fails with RecursionLimitExceeded, and sibling containers,
\* however many, are read.
C6_RecursionLimit ==
    /\ Len(stack) <= RecursionLimit
    /\ phase = "done" /\ Len(wire) > RecursionLimit /\ Opened(wire) = Len(wire)
           => ~back.ok /\ back.e.kind = "RecursionLimitExceeded"
    /\ phase = "done" /\ wire = Siblings(RecursionLimit + MaxBeyond) => back.ok

----------------------------------------------------------------------------
(* Tag<V> (src/src/tag.rs) through the serializer of                        *)
(* src/ciborium/src/ser/mod.rs, without canonicalization, and back through  *)
(* the deserializer.  A Tag is the record [tag, val]: a u64 and, for V, a   *)
(* byte string.  Names are the bytes of their text.                         *)

\* "@@TAG@@": the name and the variant that #[serde(rename)] gives Foo::Bar
FOO_NAME == <<64, 64, 84, 65, 71, 64, 64>>
FOO_VARIANT == <<64, 64, 84, 65, 71, 64, 64>>

\* "@@TAGGED@@": the variant that serialize_tuple_variant writes as a tag
TAGGED == <<64, 64, 84, 65, 71, 71, 69, 68, 64, 64>>

\* Serializer::serialize_str / serialize_bytes / serialize_u64
Serializer_serialize_str(v) == encode(SomeLen("Text", U64(Len(v)))) \o v
Serializer_serialize_bytes(v) == encode(SomeLen("Bytes", U64(Len(v)))) \o v
Serializer_serialize_u64(v) == encode(Positive(v))

\* CollectionSerializer::new with push_header, nothing being sorted: the
\* collection [collection_type, tag_written, out]
CollectionSerializer(collection_type, count, out) ==
    [collection_type |-> collection_type, tag_written |-> FALSE,
     out |-> out \o (IF collection_type = "Tag" THEN <<>>
                     ELSE encode(SomeLen(collection_type, U64(count))))]

\* Serializer::serialize_tuple_variant
Serializer_serialize_tuple_variant(name, variant, count) ==
    IF name = FOO_NAME /\ variant = TAGGED
    THEN CollectionSerializer("Tag", count, <<>>)
    ELSE CollectionSerializer("Array", count,
                              encode(SomeLen("Map", U64(1))) \o Serializer_serialize_str(variant))

\* SerializeTupleVariant::serialize_field of a field [type, v], type "u64" or
\* "bytes"; tag::Serializer answers Ok(v) to a u64 and Err to a byte string
serialize_field(cs, field) ==
    IF cs.tag_written \/ cs.collection_type # "Tag"
    THEN Ok([cs EXCEPT !.out = @ \o (IF field.type = "u64"
                                     THEN Serializer_serialize_u64(field.v)
                                     ELSE Serializer_serialize_bytes(field.v))])
    ELSE IF field.type = "u64"
    THEN Ok([cs EXCEPT !.tag_written = TRUE, !.out = @ \o encode(Tag(field.v))])
    ELSE Err(NoErr)

\* Serialize for Tag<V>: the derived Serialize of Foo::Bar(self.0, &self.1);
\* end!() writes nothing for a collection of known length
TagSerialize(t) ==
    LET cs == Serializer_serialize_tuple_variant(FOO_NAME, FOO_VARIANT, 2)
        one == serialize_field(cs, [type |-> "u64", v |-> t.tag])
        two == serialize_field(one.v, [type |-> "bytes", v |-> t.val])
    IN  IF ~one.ok THEN one
        ELSE IF ~two.ok THEN two
        ELSE Ok(two.v.out)

\* a Semantic error that serde's Error::custom builds: it has no offset
SemanticNone == [kind |-> "Semantic", at |-> 0 - 1]

\* the derived Visitor::visit_seq of Foo::Bar over the SeqAccess of
\* VariantAccess::tuple_variant (deserialize_seq): a u64, then a V
FooVisitSeq(io) ==
    Try(NewAccess(io, "Array"), LAMBDA a :
    Try(HasNext(a.d, a.r.v), LAMBDA h0 :
        IF ~h0.r.v.more THEN Out(h0.d, Err(SemanticNone))
        ELSE
    Try(integer(h0.d, "u64"), LAMBDA n :
    Try(HasNext(n.d, h0.r.v.acc), LAMBDA h1 :
        IF ~h1.r.v.more THEN Out(h1.d, Err(SemanticNone))
        ELSE
    Try(chunked(h1.d, "Bytes", "bytes", 0, <<>>), LAMBDA v :
        Out(v.d, Ok([tag |-> Low(8, n.r.v), val |-> v.r.v])))))))

\* the derived Visitor::visit_enum of Foo: EnumAccess::variant_seed reads the
\* variant through deserialize_identifier, tuple_variant reads the fields
FooVisitEnum(io) ==
    Try(chunked(io, "Text", "text", 0, <<>>), LAMBDA s :
        IF s.r.v # FOO_VARIANT THEN Out(s.d, Err(SemanticNone))
        ELSE FooVisitSeq(s.d))

\* the variants and the fields of Enum in src/ciborium-serde/tests/serde.rs,
\* as the bytes of their names
UNIT_VARIANT == <<85, 110, 105, 116, 86, 97, 114, 105, 97, 110, 116>>
NEWTYPE_VARIANT == <<78, 101, 119, 116, 121, 112, 101, 86, 97, 114, 105, 97, 110, 116>>
TUPLE_VARIANT == <<84, 117, 112, 108, 101, 86, 97, 114, 105, 97, 110, 116>>
STRUCT_VARIANT == <<83, 116, 114, 117, 99, 116, 86, 97, 114, 105, 97, 110, 116>>
FIELD_FIRST == <<102, 105, 114, 115, 116>>
FIELD_SECOND == <<115, 101, 99, 111, 110, 100>>

\* a value of Enum: the variant's name and its fields as 128-bit integers,
\* zero where the variant has no such field
EnumValue(variant, first, second) ==
    [variant |-> variant, first |-> first, second |-> second]

\* the derived Visitor::visit_seq of Enum::TupleVariant(u8, u16) over the
\* SeqAccess of VariantAccess::tuple_variant
EnumVisitSeq(io) ==
    Try(NewAccess(io, "Array"), LAMBDA a :
    Try(HasNext(a.d, a.r.v), LAMBDA h0 :
        IF ~h0.r.v.more THEN Out(h0.d, Err(SemanticNone))
        ELSE
    Try(integer(h0.d, "u8"), LAMBDA x :
    Try(HasNext(x.d, h0.r.v.acc), LAMBDA h1 :
        IF ~h1.r.v.more THEN Out(h1.d, Err(SemanticNone))
        ELSE
    Try(integer(h1.d, "u16"), LAMBDA y :
        Out(y.d, Ok(EnumValue(TUPLE_VARIANT, x.r.v, y.r.v))))))))

\* the derived Visitor::visit_map of Enum::StructVariant { first, second }
\* over the MapAccess of VariantAccess::struct_variant: got holds the fields
\* read so far, a field given twice or missing is serde's custom error, a key
\* that names no field has its value read as IgnoredAny
RECURSIVE EnumVisitMap(_, _, _)
EnumVisitMap(io, acc, got) ==
    Try(HasNext(io, acc), LAMBDA h :
        IF ~h.r.v.more
        THEN IF got.first = <<>> \/ got.second = <<>> THEN Out(h.d, Err(SemanticNone))
             ELSE Out(h.d, Ok(EnumValue(STRUCT_VARIANT, got.first[1], got.second[1])))
        ELSE
    Try(chunked(h.d, "Text", "text", 0, <<>>), LAMBDA k :
        IF k.r.v = FIELD_FIRST
        THEN IF got.first # <<>> THEN Out(k.d, Err(SemanticNone))
             ELSE Try(integer(k.d, "u8"), LAMBDA v :
                      EnumVisitMap(v.d, h.r.v.acc, [got EXCEPT !.first = <<v.r.v>>]))
        ELSE IF k.r.v = FIELD_SECOND
        THEN IF got.second # <<>> THEN Out(k.d, Err(SemanticNone))
             ELSE Try(integer(k.d, "u16"), LAMBDA v :
                      EnumVisitMap(v.d, h.r.v.acc, [got EXCEPT !.second = <<v.r.v>>]))
        ELSE Try(deserialize_any(k.d), LAMBDA v : EnumVisitMap(v.d, h.r.v.acc, got))))

\* the derived Visitor::visit_enum of Enum: the variant through
\* deserialize_identifier, then unit_variant, newtype_variant_seed,
\* tuple_variant or struct_variant
EnumVisitEnum(io) ==
    Try(chunked(io, "Text", "text", 0, <<>>), LAMBDA s :
        IF s.r.v = UNIT_VARIANT
        THEN Out(s.d, Ok(EnumValue(UNIT_VARIANT, Zeros(16), Zeros(16))))
        ELSE IF s.r.v = NEWTYPE_VARIANT
        THEN Try(integer(s.d, "u8"), LAMBDA x :
                 Out(x.d, Ok(EnumValue(NEWTYPE_VARIANT, x.r.v, Zeros(16)))))
        ELSE IF s.r.v = TUPLE_VARIANT THEN EnumVisitSeq(s.d)
        ELSE IF s.r.v = STRUCT_VARIANT
        THEN Try(NewAccess(s.d, "Map"), LAMBDA a :
                 EnumVisitMap(a.d, a.r.v, [first |-> <<>>, second |-> <<>>]))
        ELSE Out(s.d, Err(SemanticNone)))

\* visitor.visit_enum(self) for the visitor of the enum E
visit_enum(E, io) == IF E = "Foo" THEN FooVisitEnum(io) ELSE EnumVisitEnum(io)

\* a deserialize_enum that takes a Map of any length for an enum
deserialize_enum_any_map(io, E) ==
    Try(io_pull(io, TRUE), LAMBDA p :
        IF p.r.v.title.major = "Map" THEN visit_enum(E, p.d)
        ELSE IF p.r.v.title.major = "Text" THEN visit_enum(E, io_push(p.d, p.r.v))
        ELSE Out(p.d, Err(Semantic(p.r.v.offset))))

\* Deserializer::deserialize_enum with the visitor of the enum E
deserialize_enum(io, E) ==
    Try(io_pull(io, TRUE), LAMBDA p :
        IF p.r.v.title = Title("Map", This(1)) THEN visit_enum(E, p.d)
        ELSE IF p.r.v.title.major = "Text" THEN visit_enum(E, io_push(p.d, p.r.v))
        ELSE Out(p.d, Err(Semantic(p.r.v.offset))))

\* de::from_reader::<Tag<Bytes>>
from_reader_Tag(reader) == deserialize_enum(NewIo(reader), "Foo").r

\* de::from_reader::<Bytes>: deserialize_bytes is deserialize_byte_buf
from_reader_Bytes(reader) == chunked(NewIo(reader), "Bytes", "bytes", 0, <<>>).r

\* tag numbers of every header width, the bignum tags among them
TagNumbers ==
    {U64(0), U64(2), U64(3), U64(7), U64(24), Pad(8, <<1, 0>>), Pad(8, <<1, 0, 0, 0, 0>>),
     [i \in 1..8 |-> 255]}

TagSamples == [tag : TagNumbers, val : BytesSamples \cup {<<1, 0, 0, 0, 0, 0, 0, 0, 0>>}]

\* the Tag(n) header followed by the byte string: c7 49 01 00 .. 00 for
\* Tag(7, h'010000000000000000')
TaggedItem(t) == encode(Tag(t.tag)) \o Serializer_serialize_bytes(t.val)

InitTag ==
    /\ phase = "tag"
    /\ stack = <<>>
    /\ arg \in TagSamples
    /\ wire = <<>>
    /\ back = Err(NoErr)
    /\ dec = Decoder(<<>>)
    /\ segs = NoSegs
    /\ seg = NoSeg
    /\ ret = Err(NoErr)

\* ser::into_writer(&Tag(n, v), Vec::new())
WriteTag ==
    /\ phase = "tag"
    /\ TagSerialize(arg).ok
    /\ wire' = TagSerialize(arg).v
    /\ phase' = "written"
    /\ UNCHANGED <<arg, back, dec, segs, seg, ret, stack>>

\* the tagged item arrives from a peer, as the constant CBOR of tests/tag.rs
TakeTagged ==
    /\ phase = "tag"
    /\ wire' = TaggedItem(arg)
    /\ phase' = "given"
    /\ UNCHANGED <<arg, back, dec, segs, seg, ret, stack>>

\* de::from_reader::<Bytes, _>(&wire[..])
ReadInner ==
    /\ phase \in {"written", "given"}
    /\ back' = from_reader_Bytes(wire)
    /\ phase' = "read inner"
    /\ UNCHANGED <<arg, wire, dec, segs, seg, ret, stack>>

\* de::from_reader::<Tag<Bytes>, _>(&wire[..])
ReadTag ==
    /\ phase \in {"written", "given"}
    /\ back' = from_reader_Tag(wire)
    /\ phase' = "read tag"
    /\ UNCHANGED <<arg, wire, dec, segs, seg, ret, stack>>

NextTag == WriteTag \/ TakeTagged \/ ReadInner \/ ReadTag

SpecTag == InitTag /\ [][NextTag]_vars

\* C7: encoding Tag(n, T) writes the Tag(n) header and then T's encoding;
\* those bytes decode as T alone to T, and as a Tag to n and T.
C7_TagTransparent ==
    /\ phase = "written" => wire = TaggedItem(arg)
    /\ phase = "read inner" /\ wire = TaggedItem(arg) => back.ok /\ back.v = arg.val
    /\ phase = "read tag" /\ wire = TaggedItem(arg) => back.ok /\ back.v = arg

\* the part of C7 that the deserializer keeps: a tagged item decodes as T alone
C7_TagSkipped ==
    phase = "read inner" /\ wire = TaggedItem(arg) => back.ok /\ back.v = arg.val

\* the tagged item never decodes as a Tag
C7_TagNeverDecoded ==
    phase = "read tag" /\ wire = TaggedItem(arg) => ~back.ok

----------------------------------------------------------------------------
(* Maps through the Serializer of src/ciborium/src/ser/mod.rs under a       *)
(* CanonicalizationScheme: "None", "Rfc7049" or "Rfc8049".  A map is given  *)
(* as its entries in insertion order, each entry a pair <<key, value>>.     *)

is_sorting(scheme) == scheme \in {"Rfc7049", "Rfc8049"}

\* Ord of Vec<u8>: bytewise, a proper prefix first
LexLt(a, b) ==
    \/ \E i \in 1..Min(Len(a), Len(b)) : a[i] < b[i] /\ \A j \in 1..(i - 1) : a[j] = b[j]
    \/ Len(a) < Len(b) /\ \A j \in 1..Len(a) : a[j] = b[j]

\* a pair that sorts everything the way it arrived
PairLe_arrival(scheme, a, b) == TRUE

\* the order pairs.sort() puts two (key_bytes, value_bytes) pairs in: by
\* (key, value) under Rfc8049, by ((key.len(), key), value) under Rfc7049
PairLe(scheme, a, b) ==
    IF scheme = "Rfc7049" /\ Len(a[1]) # Len(b[1]) THEN Len(a[1]) < Len(b[1])
    ELSE IF a[1] # b[1] THEN LexLt(a[1], b[1])
    ELSE a[2] = b[2] \/ LexLt(a[2], b[2])

\* pairs.sort(): the pair x put into the sorted pairs, after its equals
RECURSIVE SortInsert(_, _, _)
SortInsert(scheme, sorted, x) ==
    IF sorted = <<>> THEN <<x>>
    ELSE IF PairLe(scheme, Head(sorted), x)
    THEN <<Head(sorted)>> \o SortInsert(scheme, Tail(sorted), x)
    ELSE <<x>> \o sorted

RECURSIVE sort(_, _)
sort(scheme, pairs) ==
    IF pairs = <<>> THEN <<>>
    ELSE SortInsert(scheme, sort(scheme, SubSeq(pairs, 1, Len(pairs) - 1)), pairs[Len(pairs)])

\* write_all of every key and value of the pairs
RECURSIVE WritePairs(_)
WritePairs(pairs) ==
    IF pairs = <<>> THEN <<>>
    ELSE pairs[1][1] \o pairs[1][2] \o WritePairs(Tail(pairs))

\* end_map!: the held-back header with cache_keys.len(), then the sorted pairs
end_map(scheme, cache) ==
    encode(SomeLen("Map", U64(Len(cache)))) \o WritePairs(sort(scheme, cache))

\* Serializer::serialize_i64
Serializer_serialize_i64(v) ==
    encode(IF IsNegative(v) THEN Negative(Not(v)) ELSE Positive(v))

\* Serialize for Value into a Serializer with the scheme, for Integers of at
\* most 64 bits, Text, Bytes, Array and Map; to_vec_small is the same over a
\* fresh buffer
RECURSIVE Serializer_serialize(_, _)
RECURSIVE SerializeElements(_, _)
RECURSIVE SerializeEntries(_, _)
RECURSIVE CacheEntries(_, _)

SerializeElements(scheme, items) ==
    IF items = <<>> THEN <<>>
    ELSE Serializer_serialize(scheme, Head(items)) \o SerializeElements(scheme, Tail(items))

\* serialize_key and serialize_value with nothing sorted: straight to the writer
SerializeEntries(scheme, items) == SerializeElements(scheme, items)

\* serialize_key and serialize_value when sorting: cache_keys and cache_values
CacheEntries(scheme, items) ==
    IF items = <<>> THEN <<>>
    ELSE <<<<Serializer_serialize(scheme, items[1]), Serializer_serialize(scheme, items[2])>>>>
         \o CacheEntries(scheme, SubSeq(items, 3, Len(items)))

Serializer_serialize(scheme, v) ==
    IF v.k = "Integer"
    THEN IF v.b THEN Serializer_serialize_u64(Low(8, v.n))
         ELSE Serializer_serialize_i64(Low(8, v.n))
    ELSE IF v.k = "Text" THEN Serializer_serialize_str(v.n)
    ELSE IF v.k = "Bytes" THEN Serializer_serialize_bytes(v.n)
    ELSE IF v.k = "Array"
    THEN encode(SomeLen("Array", U64(Len(v.items)))) \o SerializeElements(scheme, v.items)
    ELSE IF is_sorting(scheme) THEN end_map(scheme, CacheEntries(scheme, v.items))
    ELSE encode(SomeLen("Map", U64(Len(v.items) \div 2))) \o SerializeEntries(scheme, v.items)

\* the entries <<key, value>> as the flat items of a Value::Map
RECURSIVE Flat(_)
Flat(entries) ==
    IF entries = <<>> THEN <<>>
    ELSE entries[1] \o Flat(Tail(entries))

\* keys whose serialized bytes differ in length and in first byte: 256, -1,
\* "a" and [1]
Key256 == Integer(TRUE, Pad(16, <<1, 0>>))
KeyMinus1 == Integer(FALSE, Not(Pad(16, <<0>>)))
KeyA == VText(<<97>>)
KeyArray == Array(<<Integer(TRUE, Pad(16, <<1>>))>>)

\* values: 1, and a map whose own entries arrive unsorted: {256: 1, -1: "a"}
One == Integer(TRUE, Pad(16, <<1>>))
Inner == Map(<<Key256, One, KeyMinus1, KeyA>>)

\* the entries maps are made of; -1 is a key of two entries
CanonEntries ==
    {<<Key256, One>>, <<KeyMinus1, One>>, <<KeyMinus1, Inner>>, <<KeyA, Inner>>,
     <<KeyArray, One>>}

Schemes == {"None", "Rfc7049", "Rfc8049"}

\* the Value::Map of entries
MapOf(entries) == Map(Flat(entries))

InitCanon ==
    /\ phase = "map"
    /\ stack = <<>>
    /\ arg \in [scheme : Schemes, entries : SeqsUpTo(CanonEntries, MaxEntries)]
    /\ wire = <<>>
    /\ back = Err(NoErr)
    /\ dec = Decoder(<<>>)
    /\ segs = NoSegs
    /\ seg = NoSeg
    /\ ret = Err(NoErr)

\* the orders the same entries can be inserted in
Perms(n) == {p \in [1..n -> 1..n] : \A i, j \in 1..n : p[i] = p[j] => i = j}

Permute(entries, p) == [i \in 1..Len(entries) |-> entries[p[i]]]

\* Serializer::new(Vec::new(), scheme), then Value::Map(entries).serialize
SerializeMap ==
    /\ phase = "map"
    /\ UNCHANGED stack
    /\ wire' = Serializer_serialize(arg.scheme, MapOf(arg.entries))
    /\ phase' = "first"
    /\ UNCHANGED <<arg, back, dec, segs, seg, ret>>

\* the same with the entries inserted in another order
SerializeReordered ==
    /\ phase = "first"
    /\ UNCHANGED stack
    /\ \E p \in Perms(Len(arg.entries)) :
          back' = Ok(Serializer_serialize(arg.scheme, MapOf(Permute(arg.entries, p))))
    /\ phase' = "both"
    /\ UNCHANGED <<arg, wire, dec, segs, seg, ret>>

NextCanon == SerializeMap \/ SerializeReordered

SpecCanon == InitCanon /\ [][NextCanon]_vars

\* the order of two serialized keys: bytewise under Rfc8049, length first and
\* then bytewise under Rfc7049
KeyLe(scheme, a, b) ==
    IF scheme = "Rfc7049" /\ Len(a) # Len(b) THEN Len(a) < Len(b)
    ELSE a = b \/ LexLt(a, b)

\* the header of a definite-length map of the entries, then the entries in
\* the order p, each the serialized key and the serialized value
Laid(scheme, entries, p) ==
    encode(SomeLen("Map", U64(Len(entries))))
    \o WritePairs([i \in 1..Len(entries) |->
                     <<Serializer_serialize(scheme, entries[p[i]][1]),
                       Serializer_serialize(scheme, entries[p[i]][2])>>])

----------------------------------------------------------------------------
(* Byte and text strings holding a chunk that cannot stand in them, read    *)
(* by from_reader (src/ciborium/tests/error.rs:25-35 and 123-131).           *)

\* one chunk of a string: its bytes, and whether it is a definite-length
\* string of the kind it stands in with a well-formed payload
Chunk(bytes, good) == [bytes |-> bytes, good |-> good]

\* the chunks offered to a byte string (text FALSE) and to a text string:
\* "a" and the empty string of its own kind; an integer, a negative integer,
\* a string of the other kind, an array, a map, a tag, a simple value; and
\* for text the two bytes c3 28, which are not UTF-8
ChunkSamples(text) ==
    LET own == IF text THEN 96 ELSE 64
        other == IF text THEN 64 ELSE 96
    IN  {Chunk(<<own + 1, 97>>, TRUE), Chunk(<<own>>, TRUE)}
        \cup {Chunk(b, FALSE) : b \in {<<0>>, <<33>>, <<other + 1, 0>>, <<128>>,
                                        <<160>>, <<192>>, <<224>>}}
        \cup (IF text THEN {Chunk(<<98, 195, 40>>, FALSE)} ELSE {})

RECURSIVE ChunkBytes(_)
ChunkBytes(chunks) ==
    IF chunks = <<>> THEN <<>> ELSE Head(chunks).bytes \o ChunkBytes(Tail(chunks))

\* a string: indefinite-length with its chunks and the Break, or one
\* definite-length item at top level
StringSamples ==
    UNION {{[text |-> t, indefinite |-> TRUE, chunks |-> c] :
                c \in SeqsUpTo(ChunkSamples(t), MaxItems)} : t \in BOOLEAN} \cup
    UNION {{[text |-> t, indefinite |-> FALSE, chunks |-> <<c>>] :
                c \in {x \in ChunkSamples(t) : x.bytes[1] \div 32 = (IF t THEN 3 ELSE 2)}} :
            t \in BOOLEAN}

StringWire(s) ==
    IF s.indefinite
    THEN <<IF s.text THEN 127 ELSE 95>> \o ChunkBytes(s.chunks) \o <<255>>
    ELSE ChunkBytes(s.chunks)

InitChunk ==
    /\ phase = "bytes"
    /\ stack = <<>>
    /\ arg \in StringSamples
    /\ wire = StringWire(arg)
    /\ back = Err(NoErr)
    /\ dec = Decoder(<<>>)
    /\ segs = NoSegs
    /\ seg = NoSeg
    /\ ret = Err(NoErr)

NextChunked == Read

SpecChunk == InitChunk /\ [][NextChunked]_vars

HasBad(s) == \E i \in 1..Len(s.chunks) : ~s.chunks[i].good

\* the index of the first chunk that cannot stand in the string
FirstBad(s) ==
    CHOOSE i \in 1..Len(s.chunks) :
        ~s.chunks[i].good /\ \A j \in 1..(i - 1) : s.chunks[j].good

\* the offset of the header of that chunk
BadAt(s) ==
    (IF s.indefinite THEN 1 ELSE 0) + Len(ChunkBytes(SubSeq(s.chunks, 1, FirstBad(s) - 1)))

HasTagChunk(s) == \E i \in 1..Len(s.chunks) : s.chunks[i].bytes = <<192>>

\* C11: reading a string whose first offending chunk (a chunk of another
\* major type, or a text chunk that is not UTF-8) has its header at offset k
\* fails with Syntax(k).
C11_ChunkOffset ==
    phase = "read" /\ HasBad(arg) => ~back.ok /\ back.e = Syntax(BadAt(arg))

\* the same for the strings without a tag among their chunks
C11_ChunkOffsetUntagged ==
    phase = "read" /\ HasBad(arg) /\ ~HasTagChunk(arg)
        => ~back.ok /\ back.e = Syntax(BadAt(arg))

\* 7f 62 c3 28 ff was read and reported at offset 1
C11_UntaggedWitness ==
    phase = "read" /\ wire = <<127, 98, 195, 40, 255>> /\ back = Err(Syntax(1))

----------------------------------------------------------------------------
(* The two-byte simple form f8 nn, turned into a Header by the Decoder and  *)
(* into a Value by from_reader.                                             *)

ReservedSimples == (0..23) \cup (28..31)

InitSimple ==
    /\ phase = "bytes"
    /\ stack = <<>>
    /\ arg \in Byte
    /\ wire = <<248, arg>>
    /\ back = Err(NoErr)
    /\ dec = Decoder(wire)
    /\ segs = NoSegs
    /\ seg = NoSeg
    /\ ret = Err(NoErr)

\* Itemizer<Header>::pull(false) on a Decoder over the two bytes
PullSimple ==
    /\ phase = "bytes"
    /\ UNCHANGED stack
    /\ LET o == HeaderPull(dec, FALSE)
       IN  /\ dec' = o.d
           /\ ret' = o.r
    /\ phase' = "pulled"
    /\ UNCHANGED <<arg, wire, back, segs, seg>>

NextSimple == PullSimple \/ Read

SpecSimple == InitSimple /\ [][NextSimple]_vars

\* C12: for nn in 0..=23 and 28..=31 the header pulled from f8 nn is not
\* Simple(nn), and from_reader::<Value> of f8 nn is an error.
C12_ReservedSimpleRejected ==
    arg \in ReservedSimples =>
        /\ phase = "pulled" => ~(ret.ok /\ ret.v = Simple(arg))
        /\ phase = "read" => ~back.ok

\* the part of C12 about Values alone
C12_ReservedSimpleNoValue ==
    arg \in ReservedSimples /\ phase = "read" => ~back.ok

----------------------------------------------------------------------------
(* Text strings read whole: by from_reader, and by a caller of              *)
(* Decoder::text that drains the Segments as bigint (dec.rs:185-187) drains *)
(* those of Decoder::bytes.                                                 *)

\* the smallest scratch buffer that holds every UTF-8 scalar value
TextScratch == 4

\* the longest text, in scalar values
MaxText == 4

\* a segment.next() that returned a piece and left the decoder and the
\* Segment as they were returns the same for ever: the loop does not end
Hang == [kind |-> "Hang", at |-> 0]

RECURSIVE NextPiece(_, _, _, _)
\* while let Some(chunk) = segment.next()?  with o what segment.next()
\* returned on the decoder d0 and the Segment sg0
Pieces(o, d0, sg0, ss, acc) ==
    IF ~o.r.ok THEN Out(o.d, o.r)
    ELSE IF ~o.r.v.some THEN Out(o.d, Ok(acc))
    ELSE IF o.d = d0 /\ o.seg = sg0 THEN Out(o.d, Err(Hang))
    ELSE NextPiece(o.d, o.seg, ss, acc \o o.r.v.v)

NextPiece(d, sg, ss, acc) ==
    Pieces(SegmentNext(d, sg, ss.text, ss.buflen), d, sg, ss, acc)

RECURSIVE NextSegmentOf(_, _, _)
\* while let Some(mut segment) = segments.next()?  with o what
\* segments.next() returned
DrainSegments(o, acc) ==
    IF ~o.r.ok THEN Out(o.d, o.r)
    ELSE IF ~o.r.v.some THEN Out(o.d, Ok(acc))
    ELSE Try(NextPiece(o.d, o.seg, o.segs, acc),
             LAMBDA p : NextSegmentOf(p.d, o.segs, p.r.v))

NextSegmentOf(d, ss, acc) == DrainSegments(SegmentsNext(d, ss), acc)

\* pull a header and, as bigint does for Bytes, hand its length to
\* Decoder::text with a scratch buffer of buflen bytes and gather the pieces
read_text(d, buflen) ==
    Try(HeaderPull(d, FALSE), LAMBDA h :
        IF h.r.v.tag # "Text" THEN Out(h.d, Err(Syntax(d.offset)))
        ELSE NextSegmentOf(push(h.d, TitleFromHeader(h.r.v)),
                           NewSegments(TRUE, buflen), <<>>))

\* the scalar values U+0061, U+00E9 and U+20AC in UTF-8
ScalarSamples == {<<97>>, <<195, 169>>, <<226, 130, 172>>}

RECURSIVE Flatten(_)
Flatten(parts) == IF parts = <<>> THEN <<>> ELSE Head(parts) \o Flatten(Tail(parts))

Utf8Samples == {Flatten(t) : t \in SeqsUpTo(ScalarSamples, MaxText)}

\* a text, where it is cut in two chunks (0: not cut, one definite-length
\* item) and the length of the reader's scratch buffer
TextInputs ==
    {x \in [text : Utf8Samples, cut : 0..(3 * MaxText), buflen : {TextScratch}] :
        x.cut < Len(x.text)}

\* the header of a definite-length text of n < 24 bytes and the text
TextItem(t) == <<96 + Len(t)>> \o t

TextWire(x) ==
    IF x.cut = 0 THEN TextItem(x.text)
    ELSE <<127>> \o TextItem(SubSeq(x.text, 1, x.cut))
                 \o TextItem(SubSeq(x.text, x.cut + 1, Len(x.text))) \o <<255>>

InitText ==
    /\ phase = "bytes"
    /\ stack = <<>>
    /\ arg \in TextInputs
    /\ wire = TextWire(arg)
    /\ back = Err(NoErr)
    /\ dec = Decoder(wire)
    /\ segs = NoSegs
    /\ seg = NoSeg
    /\ ret = Err(NoErr)

\* the caller of Decoder::text reads the item to its end
ReadText ==
    /\ phase = "bytes"
    /\ UNCHANGED stack
    /\ LET o == read_text(dec, arg.buflen)
       IN  /\ dec' = o.d
           /\ ret' = o.r
    /\ phase' = "text"
    /\ UNCHANGED <<arg, wire, back, segs, seg>>

NextText == ReadText \/ Read

SpecText == InitText /\ [][NextText]_vars

\* the cut falls inside a scalar value
SplitInside(x) == x.cut > 0 /\ ValidUpTo(SubSeq(x.text, 1, x.cut), 1) # x.cut

\* C13: an indefinite-length text whose two definite-length chunks split a
\* scalar value between them decodes to the whole text.
C13_SplitCodePoint ==
    SplitInside(arg) =>
        /\ phase = "read" => back.ok /\ back.v = VText(arg.text)
        /\ phase = "text" => ret.ok /\ ret.v = arg.text

\* two chunks that each hold whole scalar values do decode to the text (for
\* the segment reader: two chunks that each fit the scratch buffer)
C13_WholeChunks ==
    arg.cut > 0 /\ ~SplitInside(arg) =>
        /\ phase = "read" => back.ok /\ back.v = VText(arg.text)
        /\ phase = "text" /\ arg.cut <= arg.buflen /\ Len(arg.text) - arg.cut <= arg.buflen
              => ret.ok /\ ret.v = arg.text

\* C14: a definite-length text of valid UTF-8 longer than the scratch buffer
\* is read to its end by the text segment reader, and the pieces yielded,
\* joined, are the payload.
C14_LongText ==
    phase = "text" /\ arg.cut = 0 /\ Len(arg.text) > arg.buflen
        => ret.ok /\ ret.v = arg.text

\* a scalar value lies across the end of a fill of the scratch buffer
Straddles(x) ==
    \E k \in 1..Len(x.text) :
        k % x.buflen = 0 /\ k < Len(x.text) /\ ValidUpTo(SubSeq(x.text, 1, k), 1) # k

\* the long texts whose scalar values all end where a fill of the buffer ends
C14_LongTextAligned ==
    phase = "text" /\ arg.cut = 0 /\ Len(arg.text) > arg.buflen /\ ~Straddles(arg)
        => ret.ok /\ ret.v = arg.text

----------------------------------------------------------------------------
(* Integers read into the host integer types by Deserializer::integer.      *)

HostTypes == {"u8", "i8", "u64", "i64", "u128", "i128"}

\* an integer item: the integer mag, or -1 - mag when neg, written as a
\* Positive / Negative header (mag < 2^64) or as a tag 2 / tag 3 bignum
IntegerItems ==
    {x \in [neg : BOOLEAN, mag : U128Samples, bignum : BOOLEAN] :
        ~x.bignum => IsZero(SubSeq(x.mag, 1, 8))}

IntegerWire(x) ==
    IF x.bignum
    THEN encode(Tag(U64(IF x.neg THEN TAG_BIGNEG ELSE TAG_BIGPOS)))
            \o Serializer_serialize_bytes(SkipZeros(x.mag))
    ELSE encode(Hdr(IF x.neg THEN "Negative" ELSE "Positive", TRUE, Low(8, x.mag)))

\* items that are no integers: simple(0), false, null, break, "", [], {}
OtherItems == {<<224>>, <<244>>, <<246>>, <<255>>, <<96>>, <<128>>, <<160>>}

InitInt ==
    /\ phase = "bytes"
    /\ stack = <<>>
    /\ \E N \in HostTypes :
          \/ \E x \in IntegerItems :
                /\ arg = [N |-> N, integer |-> TRUE, item |-> x]
                /\ wire = IntegerWire(x)
          \/ \E o \in OtherItems :
                /\ arg = [N |-> N, integer |-> FALSE, item |-> o]
                /\ wire = o
    /\ back = Err(NoErr)
    /\ dec = Decoder(<<>>)
    /\ segs = NoSegs
    /\ seg = NoSeg
    /\ ret = Err(NoErr)

\* de::from_reader::<N, _>(&wire[..]): deserialize_u8 .. deserialize_i128
ReadInteger ==
    /\ phase = "bytes"
    /\ UNCHANGED stack
    /\ back' = integer(NewIo(wire), arg.N).r
    /\ phase' = "read"
    /\ UNCHANGED <<arg, wire, dec, segs, seg, ret>>

NextInt == ReadInteger

SpecInt == InitInt /\ [][NextInt]_vars

\* the integer of the item lies in the range of N
InRange(N, x) ==
    /\ IsZero(SubSeq(x.mag, 1, 16 - NBytes(N)))
    /\ IF NSigned(N) THEN x.mag[17 - NBytes(N)] < 128 ELSE ~x.neg

\* the integer of the item as the 16 bytes of a 128-bit integer
Encoded(x) == IF x.neg THEN Not(x.mag) ELSE x.mag

\* C17: an integer item read as N comes back as the encoded value when that
\* lies in the range of N and as Semantic at the item's offset (here 0) when
\* it does not; an item that is no integer is Semantic at its offset.
C17_IntegerChecked ==
    phase = "read" =>
        IF arg.integer /\ InRange(arg.N, arg.item)
        THEN back.ok /\ back.v = Encoded(arg.item)
        ELSE ~back.ok /\ back.e = Semantic(0)

\* the same with the offset left open: never a wrapped or truncated value
C17_IntegerNeverWrapped ==
    phase = "read" =>
        IF arg.integer /\ InRange(arg.N, arg.item)
        THEN back.ok /\ back.v = Encoded(arg.item)
        ELSE ~back.ok /\ back.e.kind = "Semantic"

\* the offset is the item's for every item but a bignum
C17_OffsetOfHeader ==
    phase = "read" /\ ~back.ok /\ ~(arg.integer /\ arg.item.bignum)
        => back.e = Semantic(0)

----------------------------------------------------------------------------
(* Enum of src/ciborium-serde/tests/serde.rs through the variant functions  *)
(* of src/src/ser/mod.rs and back through deserialize_enum.                 *)

\* Serializer::serialize_unit_variant
serialize_unit_variant(variant) == serialize_str(variant)

\* Serializer::serialize_newtype_variant, value the bytes value.serialize gives
serialize_newtype_variant(variant, value) ==
    save(Title("Map", This(1))) \o serialize_str(variant) \o value

\* Serializer::serialize_tuple_variant: what it writes before the fields
serialize_tuple_variant(variant, l) ==
    save(Title("Map", This(1))) \o serialize_str(variant)
        \o save(Title("Array", MinorFromLength(TRUE, l)))

\* Serializer::serialize_struct_variant: what it writes before the fields
serialize_struct_variant(variant, l) ==
    save(Title("Map", This(1))) \o serialize_str(variant)
        \o save(Title("Map", MinorFromLength(TRUE, l)))

\* SerializeStructVariant::serialize_field
serialize_struct_field(key, value) == serialize_str(key) \o value

\* the derived Serialize of Enum; serialize_u8 and serialize_u16 are
\* serialize_u64(v.into())
EnumSerialize(e) ==
    IF e.variant = UNIT_VARIANT THEN serialize_unit_variant(UNIT_VARIANT)
    ELSE IF e.variant = NEWTYPE_VARIANT
    THEN serialize_newtype_variant(NEWTYPE_VARIANT, serialize_u64(Low(8, e.first)))
    ELSE IF e.variant = TUPLE_VARIANT
    THEN serialize_tuple_variant(TUPLE_VARIANT, 2)
            \o serialize_u64(Low(8, e.first)) \o serialize_u64(Low(8, e.second))
            \o end(FALSE)
    ELSE serialize_struct_variant(STRUCT_VARIANT, 2)
            \o serialize_struct_field(FIELD_FIRST, serialize_u64(Low(8, e.first)))
            \o serialize_struct_field(FIELD_SECOND, serialize_u64(Low(8, e.second)))
            \o end(FALSE)

\* u8 and u16 values at the width boundaries of the headers
U8Samples == {Pad(16, <<0>>), Pad(16, <<23>>), Pad(16, <<24>>), Pad(16, <<255>>)}
U16Samples == {Pad(16, <<0>>), Pad(16, <<255>>), Pad(16, <<1, 0>>), Pad(16, <<255, 255>>)}

EnumSamples ==
    {EnumValue(UNIT_VARIANT, Zeros(16), Zeros(16))}
    \cup {EnumValue(NEWTYPE_VARIANT, a, Zeros(16)) : a \in U8Samples}
    \cup {EnumValue(v, a, b) : v \in {TUPLE_VARIANT, STRUCT_VARIANT},
                               a \in U8Samples, b \in U16Samples}

\* headers that are neither a Text, a Map of definite length 1 nor a Tag:
\* 0, -1, h'', [], {}, a map of 2, a map whose length 1 takes a byte, an
\* indefinite map, simple(0), false, null, a float, break
OtherHeaders ==
    {<<0>>, <<32>>, <<64>>, <<128>>, <<160>>, <<162>>, <<184, 1>>, <<191>>,
     <<224>>, <<244>>, <<246>>, <<249, 0, 0>>, <<255>>}

\* items the serializer never writes for e: a tag before the item, the unit
\* variant's name as one chunk of an indefinite text, and a bare Text naming
\* a newtype variant with the value after it
UnemittedShapes(e) ==
    {<<192>> \o EnumSerialize(e), <<216, 24>> \o EnumSerialize(e)}
    \cup (IF e.variant = UNIT_VARIANT
          THEN {<<127>> \o serialize_str(UNIT_VARIANT) \o <<255>>} ELSE {})
    \cup (IF e.variant = NEWTYPE_VARIANT
          THEN {serialize_str(NEWTYPE_VARIANT) \o serialize_u64(Low(8, e.first))}
          ELSE {})

InitEnum ==
    /\ stack = <<>>
    /\ \/ \E e \in EnumSamples :
             /\ arg = [kind |-> "value", e |-> e]
             /\ phase = "value"
             /\ wire = <<>>
       \/ \E h \in OtherHeaders, e \in EnumSamples :
             /\ arg = [kind |-> "header", e |-> e]
             /\ phase = "bytes"
             /\ wire = h \o EnumSerialize(e)
       \/ \E e \in EnumSamples : \E w \in UnemittedShapes(e) :
             /\ arg = [kind |-> "unemitted", e |-> e]
             /\ phase = "bytes"
             /\ wire = w
    /\ back = Err(NoErr)
    /\ dec = Decoder(<<>>)
    /\ segs = NoSegs
    /\ seg = NoSeg
    /\ ret = Err(NoErr)

\* ser::into_writer(&arg.e, &mut wire)
WriteEnum ==
    /\ phase = "value"
    /\ wire' = EnumSerialize(arg.e)
    /\ phase' = "bytes"
    /\ UNCHANGED <<arg, back, dec, segs, seg, ret, stack>>

\* de::from_reader::<Enum, _>(&wire[..])
ReadEnum ==
    /\ phase = "bytes"
    /\ back' = deserialize_enum(NewIo(wire), "Enum").r
    /\ phase' = "read"
    /\ UNCHANGED <<arg, wire, dec, segs, seg, ret, stack>>

NextEnum == WriteEnum \/ ReadEnum

SpecEnum == InitEnum /\ [][NextEnum]_vars

\* the item begins with a Text header or with the header of a map of 1
EmittedShape(w) == w # <<>> /\ (w[1] \div 32 = 3 \/ w[1] = 161)

\* C18: every variant of Enum is written as a Text or as a Map of definite
\* length 1 and reads back as itself; an item that begins with any other
\* header, or that the serializer never writes, is a Semantic error.
C18_EnumShapes ==
    phase = "read" =>
        IF arg.kind = "value" THEN EmittedShape(wire) /\ back = Ok(arg.e)
        ELSE ~back.ok /\ back.e.kind = "Semantic"

\* C18 as the code has it: tags before the item are skipped and a Text of
\* any form is taken for the variant's name, so the unemitted shapes read as
\* the value too; every other header is Semantic at its offset.
C18_EnumShapesTagsSkipped ==
    phase = "read" =>
        IF arg.kind = "value" THEN EmittedShape(wire) /\ back = Ok(arg.e)
        ELSE IF arg.kind = "unemitted" THEN back = Ok(arg.e)
        ELSE back = Err(Semantic(0))

\* a struct variant with a two-byte field came back from its bytes
C18_Witness ==
    /\ phase = "read"
    /\ arg.kind = "value" /\ arg.e.variant = STRUCT_VARIANT
    /\ arg.e.second = Pad(16, <<255, 255>>)
    /\ back = Ok(arg.e)

----------------------------------------------------------------------------
(* The canonical order of Values (src/ciborium/src/value/canonical.rs).  An *)
(* Ordering is -1 (Less), 0 (Equal) or 1 (Greater).                         *)

\* Value::Tag(t, v): the tag number in n, the inner value the one item
VTag(t, v) == Val("Tag", FALSE, t, <<v>>)

\* Ord of two naturals and of two bools
CmpNat(a, b) == IF a < b THEN 0 - 1 ELSE IF a = b THEN 0 ELSE 1
CmpBool(a, b) == CmpNat(IF a THEN 1 ELSE 0, IF b THEN 1 ELSE 0)

\* Ord of Vec<u8>, of &str and of u128 as big-endian bytes
CmpBytes(a, b) == IF a = b THEN 0 ELSE IF LexLt(a, b) THEN 0 - 1 ELSE 1

\* the place of a variant in the declaration of enum Value
VariantIndex(v) ==
    CASE v.k = "Integer" -> 0 [] v.k = "Bytes" -> 1 [] v.k = "Float" -> 2
      [] v.k = "Text" -> 3 [] v.k = "Bool" -> 4 [] v.k = "Null" -> 5
      [] v.k = "Tag" -> 6 [] v.k = "Array" -> 7 [] v.k = "Map" -> 8

\* #[derive(PartialOrd, Ord)] of Value: the variants in declaration order,
\* then the fields in order; Integer(bool, u128) and Vec<_> lexicographic
RECURSIVE partial_cmp(_, _)
RECURSIVE CmpItems(_, _)
CmpItems(a, b) ==
    IF a = <<>> \/ b = <<>> THEN CmpNat(Len(a), Len(b))
    ELSE IF partial_cmp(Head(a), Head(b)) # 0 THEN partial_cmp(Head(a), Head(b))
    ELSE CmpItems(Tail(a), Tail(b))

partial_cmp(a, b) ==
    IF a.k # b.k THEN CmpNat(VariantIndex(a), VariantIndex(b))
    ELSE IF a.k = "Integer"
    THEN IF a.b # b.b THEN CmpBool(a.b, b.b) ELSE CmpBytes(a.n, b.n)
    ELSE IF a.k = "Bool" THEN CmpBool(a.b, b.b)
    ELSE IF a.k = "Tag"
    THEN IF a.n # b.n THEN CmpBytes(a.n, b.n) ELSE CmpItems(a.items, b.items)
    ELSE IF a.k \in {"Array", "Map"} THEN CmpItems(a.items, b.items)
    ELSE CmpBytes(a.n, b.n)

\* ser::into_writer(v, &mut bytes) for a Value: a Tag is written as the Tag
\* header and the inner value, a collection with a definite length
RECURSIVE into_vec(_)
RECURSIVE IntoVecAll(_)
IntoVecAll(items) ==
    IF items = <<>> THEN <<>> ELSE into_vec(Head(items)) \o IntoVecAll(Tail(items))

into_vec(v) ==
    IF v.k = "Tag" THEN encode(Tag(v.n)) \o into_vec(v.items[1])
    ELSE IF v.k = "Array"
    THEN encode(SomeLen("Array", U64(Len(v.items)))) \o IntoVecAll(v.items)
    ELSE IF v.k = "Map"
    THEN encode(SomeLen("Map", U64(Len(v.items) \div 2))) \o IntoVecAll(v.items)
    ELSE Serialize(v)

\* bytes1.len().cmp(&bytes2.len()), and bytes1.cmp(&bytes2) when Equal
CmpLengthFirst(bytes1, bytes2) ==
    IF Len(bytes1) # Len(bytes2) THEN CmpNat(Len(bytes1), Len(bytes2))
    ELSE CmpBytes(bytes1, bytes2)

serialized_canonical_cmp(v1, v2) == CmpLengthFirst(into_vec(v1), into_vec(v2))

\* Integer::canonical_cmp: by the length of the serialized integer, then by
\* its bytes
canonical_cmp(i, o) == CmpLengthFirst(SerializeInteger(i), SerializeInteger(o))

\* a cmp_value that compares two Tags as it compares everything else
cmp_value_serialized(v1, v2) ==
    IF v1.k = "Integer" /\ v2.k = "Integer" THEN canonical_cmp(v1, v2)
    ELSE serialized_canonical_cmp(v1, v2)

\* cmp_value
cmp_value(v1, v2) ==
    IF v1.k = "Integer" /\ v2.k = "Integer" THEN canonical_cmp(v1, v2)
    ELSE IF v1.k = "Text" /\ v2.k = "Text"
    THEN IF Len(v1.n) # Len(v2.n) THEN CmpNat(Len(v1.n), Len(v2.n)) ELSE CmpBytes(v1.n, v2.n)
    ELSE IF v1.k = "Bool" /\ v2.k = "Bool" THEN CmpBool(v1.b, v2.b)
    ELSE IF v1.k = "Null" /\ v2.k = "Null" THEN 0
    ELSE IF v1.k = "Tag" /\ v2.k = "Tag"
    THEN IF partial_cmp(Integer(TRUE, Pad(16, v1.n)), Integer(TRUE, Pad(16, v2.n))) # 0
         THEN partial_cmp(Integer(TRUE, Pad(16, v1.n)), Integer(TRUE, Pad(16, v2.n)))
         ELSE partial_cmp(v1.items[1], v2.items[1])
    ELSE serialized_canonical_cmp(v1, v2)

\* slice::sort of CanonicalValues, stable: x put into the sorted values after
\* everything that is not Greater than it
RECURSIVE InsertValue(_, _)
InsertValue(sorted, x) ==
    IF sorted = <<>> THEN <<x>>
    ELSE IF cmp_value(Head(sorted), x) <= 0
    THEN <<Head(sorted)>> \o InsertValue(Tail(sorted), x)
    ELSE <<x>> \o sorted

RECURSIVE sort_values(_)
sort_values(values) ==
    IF values = <<>> THEN <<>>
    ELSE InsertValue(sort_values(SubSeq(values, 1, Len(values) - 1)), values[Len(values)])

\* the integer n >= 0 and the integer -1 - n, n below 2^16
Nat16(n) == Integer(TRUE, Pad(16, <<n \div 256, n % 256>>))
Neg16(n) == Integer(FALSE, Not(Pad(16, <<n \div 256, n % 256>>)))

\* the values of the tests rfc8949_example and negative_numbers, -1000, a
\* byte string, null, true, and tagged values
TestValues ==
    {Nat16(10), Neg16(0), Neg16(1), Bool(FALSE), Nat16(100), Neg16(99), Neg16(199),
     VText(<<122>>), Array(<<Neg16(0)>>), Neg16(299), VText(<<97, 97>>),
     Array(<<Nat16(100)>>), Neg16(999), Bool(TRUE), Null, VBytes(<<1>>)}

TaggedValues ==
    {VTag(U64(1), Nat16(10)), VTag(U64(1), Neg16(0)), VTag(U64(24), Nat16(0)),
     VTag(U64(0), Array(<<Nat16(1), Nat16(2), Nat16(3)>>))}

OrderValues == TestValues \cup TaggedValues

\* the values lists are made of: 10, -1, -1000, "z", "aa", [-1], and the
\* tagged values
ListValues ==
    {Nat16(10), Neg16(0), Neg16(999), VText(<<122>>), VText(<<97, 97>>),
     VText(<<97, 98, 99>>), Array(<<Neg16(0)>>)} \cup TaggedValues

MaxList == 3

InitOrder ==
    /\ stack = <<>>
    /\ \/ /\ phase = "pair"
          /\ arg \in [a : OrderValues, b : OrderValues]
       \/ /\ phase = "list"
          /\ arg \in SeqsUpTo(ListValues, MaxList)
    /\ wire = <<>>
    /\ back = Err(NoErr)
    /\ dec = Decoder(<<>>)
    /\ segs = NoSegs
    /\ seg = NoSeg
    /\ ret = Err(NoErr)

\* CanonicalValue::from(a).cmp(&CanonicalValue::from(b))
Compare ==
    /\ phase = "pair"
    /\ back' = Ok(cmp_value(arg.a, arg.b))
    /\ phase' = "compared"
    /\ UNCHANGED <<arg, wire, dec, segs, seg, ret, stack>>

\* array.sort() of the list
SortList ==
    /\ phase = "list"
    /\ wire' = sort_values(arg)
    /\ phase' = "sorted"
    /\ UNCHANGED <<arg, back, dec, segs, seg, ret, stack>>

\* array.shuffle(..), then array.sort()
SortShuffled ==
    /\ phase = "sorted"
    /\ \E p \in Perms(Len(arg)) : back' = Ok(sort_values(Permute(arg, p)))
    /\ phase' = "both"
    /\ UNCHANGED <<arg, wire, dec, segs, seg, ret, stack>>

NextOrder == Compare \/ SortList \/ SortShuffled

SpecOrder == InitOrder /\ [][NextOrder]_vars

HasTag(values) == \E i \in 1..Len(values) : values[i].k = "Tag"

\* C19: cmp_value(a, b) is the comparison of the serializations of a and b,
\* by length and then bytewise, and a list sorts to the same order whatever
\* order it was shuffled into.
C19_SerializedOrder ==
    /\ phase = "compared" => back.v = CmpLengthFirst(into_vec(arg.a), into_vec(arg.b))
    /\ phase = "both" => back.v = wire

\* the same where no two Tags are compared: pairs that are not both Tags,
\* lists without a Tag
C19_SerializedOrderUntagged ==
    /\ phase = "compared" /\ ~(arg.a.k = "Tag" /\ arg.b.k = "Tag")
          => back.v = CmpLengthFirst(into_vec(arg.a), into_vec(arg.b))
    /\ phase = "both" /\ ~HasTag(arg) => back.v = wire

\* 10 < -1 < -1000, as the serializations 0a, 20, 39 03 e7 order them
C19_TestOrder ==
    phase = "compared" =>
        /\ arg.a = Nat16(10) /\ arg.b = Neg16(0) => back.v = 0 - 1
        /\ arg.a = Neg16(0) /\ arg.b = Neg16(999) => back.v = 0 - 1
        /\ arg.a = Neg16(999) /\ arg.b = Nat16(10) => back.v = 1

\* the second half of C19 alone: every shuffle of a list sorts to one order
C19_SortDeterministic == phase = "both" => back.v = wire

----------------------------------------------------------------------------
(* canonical_value (src/ciborium/src/value/canonical.rs) over Values with   *)
(* maps nested in arrays, tags, map keys and map values.                    *)

\* the entries <<key, value>> of a Value::Map
Entries(v) == [i \in 1..(Len(v.items) \div 2) |-> <<v.items[2 * i - 1], v.items[2 * i]>>]

\* sort_by(|(k1, _), (k2, _)| cmp_value(k1, k2)), stable: the entry x put
\* into the sorted entries after every entry whose key is not Greater
RECURSIVE InsertEntry(_, _)
InsertEntry(sorted, x) ==
    IF sorted = <<>> THEN <<x>>
    ELSE IF cmp_value(Head(sorted)[1], x[1]) <= 0
    THEN <<Head(sorted)>> \o InsertEntry(Tail(sorted), x)
    ELSE <<x>> \o sorted

RECURSIVE sort_by(_)
sort_by(entries) ==
    IF entries = <<>> THEN <<>>
    ELSE InsertEntry(sort_by(SubSeq(entries, 1, Len(entries) - 1)), entries[Len(entries)])

\* a canonical_value that sorts the entries of a map and looks no deeper
canonical_value_shallow(value) ==
    IF value.k = "Map" THEN Map(Flat(sort_by(Entries(value)))) ELSE value

\* canonical_value
RECURSIVE canonical_value(_)
canonical_value(value) ==
    IF value.k = "Map"
    THEN Map(Flat(sort_by([i \in 1..(Len(value.items) \div 2) |->
                             <<canonical_value(value.items[2 * i - 1]),
                               canonical_value(value.items[2 * i])>>])))
    ELSE IF value.k = "Array"
    THEN Array([i \in 1..Len(value.items) |-> canonical_value(value.items[i])])
    ELSE IF value.k = "Tag" THEN VTag(value.n, canonical_value(value.items[1]))
    ELSE value

\* the maps of the test canonical_value_nested_structures:
\* {"b": 2, "a": 1} and {100: "high", 10: "low"}
MapBA == Map(<<VText(<<98>>), Nat16(2), VText(<<97>>), Nat16(1)>>)
MapHighLow ==
    Map(<<Nat16(100), VText(<<104, 105, 103, 104>>), Nat16(10), VText(<<108, 111, 119>>)>>)

\* the value of the test: [{"b": 2, "a": 1}, 1({100: "high", 10: "low"})]
NestedValue == Array(<<MapBA, VTag(U64(1), MapHighLow)>>)

\* the entries maps are made of: a map as a value, in an array among scalars
\* that canonical order would swap, under a tag and as a key; 10 is the key
\* of two entries, and two keys are Tags that cmp_value puts the other way
\* round than their serializations c1 0a and c1 20
NestedEntries ==
    {<<VText(<<98>>), Nat16(2)>>,
     <<VText(<<97>>), MapBA>>,
     <<Nat16(100), Array(<<MapBA, Neg16(0), Nat16(10)>>)>>,
     <<Nat16(10), VTag(U64(1), MapHighLow)>>,
     <<MapBA, Nat16(1)>>,
     <<Nat16(10), Nat16(0)>>,
     <<VTag(U64(1), Nat16(10)), Nat16(1)>>,
     <<VTag(U64(1), Neg16(0)), MapBA>>}

\* a map on its own, in an array, under a tag, and as key and value of a map
Wrapped(map) ==
    {map, Array(<<map, Neg16(0), Nat16(10)>>), VTag(U64(1), map), Map(<<map, map>>)}

\* the canonical map of the test canonical_value_example is written with
\* its keys in the order 10, -1, false, 100, "z", [-1], "aa", [100]
ExampleMap ==
    Map(<<Bool(FALSE), Nat16(2), Array(<<Neg16(0)>>), Nat16(5), Neg16(0), Nat16(1),
          Nat16(10), Nat16(0), Nat16(100), Nat16(3), Array(<<Nat16(100)>>), Nat16(7),
          VText(<<122>>), Nat16(4), VText(<<97, 97>>), Nat16(6)>>)

ExampleBytes ==
    <<168, 10, 0, 32, 1, 244, 2, 24, 100, 3, 97, 122, 4, 129, 32, 5, 98, 97, 97, 6,
      129, 24, 100, 7>>

\* the entries of that map with the keys false, -1 and 100, in its order
ExampleHead == Map(<<Bool(FALSE), Nat16(2), Neg16(0), Nat16(1), Nat16(100), Nat16(3)>>)

InitNested ==
    /\ phase = "value"
    /\ stack = <<>>
    /\ \/ arg \in {NestedValue, ExampleHead, Nat16(10), Neg16(999), VText(<<97, 97>>), Bool(TRUE), Null,
                   VBytes(<<2, 1>>)}
       \/ \E entries \in SeqsUpTo(NestedEntries, MaxEntries) : arg \in Wrapped(MapOf(entries))
    /\ wire = <<>>
    /\ back = Err(NoErr)
    /\ dec = Decoder(<<>>)
    /\ segs = NoSegs
    /\ seg = NoSeg
    /\ ret = Err(NoErr)

\* canonical_value(arg)
Canonicalize ==
    /\ phase = "value"
    /\ back' = Ok(canonical_value(arg))
    /\ phase' = "canonical"
    /\ UNCHANGED <<arg, wire, dec, segs, seg, ret, stack>>

\* ciborium::ser::into_writer(&canonical, &mut bytes)
WriteCanonical ==
    /\ phase = "canonical"
    /\ wire' = into_vec(back.v)
    /\ phase' = "written"
    /\ UNCHANGED <<arg, back, dec, segs, seg, ret, stack>>

NextNested == Canonicalize \/ WriteCanonical

SpecNested == InitNested /\ [][NextNested]_vars

\* c is v with nothing changed but the order of the entries of its maps:
\* scalars as they are, arrays and tags item by item, the entries of a map
\* in some order p with keys that never decrease under cmp_value
RECURSIVE Reordered(_, _)
Reordered(v, c) ==
    IF v.k \notin {"Map", "Array", "Tag"} THEN c = v
    ELSE /\ c.k = v.k /\ c.n = v.n /\ c.b = v.b /\ Len(c.items) = Len(v.items)
         /\ IF v.k = "Map"
            THEN /\ \E p \in Perms(Len(Entries(v))) :
                       \A i \in 1..Len(Entries(v)) :
                          /\ Reordered(Entries(v)[p[i]][1], Entries(c)[i][1])
                          /\ Reordered(Entries(v)[p[i]][2], Entries(c)[i][2])
                 /\ \A i \in 1..(Len(Entries(c)) - 1) :
                       cmp_value(Entries(c)[i][1], Entries(c)[i + 1][1]) <= 0
            ELSE \A i \in 1..Len(v.items) : Reordered(v.items[i], c.items[i])

\* C20: canonical_value(v) is v with every map, at every depth, holding the
\* same entries in an order where the keys never decrease under cmp_value;
\* scalars and the order of array elements are as they were.
C20_CanonicalValue == phase \in {"canonical", "written"} => Reordered(arg, back.v)

\* the array of the test came back with both of its maps reordered, the one
\* under the tag too, and its elements in place
C20_Witness ==
    /\ phase = "written" /\ arg = NestedValue
    /\ back.v = Array(<<Map(<<VText(<<97>>), Nat16(1), VText(<<98>>), Nat16(2)>>),
                        VTag(U64(1), Map(<<Nat16(10), VText(<<108, 111, 119>>),
                                           Nat16(100), VText(<<104, 105, 103, 104>>)>>))>>)

C20_Example == into_vec(canonical_value(ExampleMap)) = ExampleBytes

----------------------------------------------------------------------------
(* The key order of the maps canonical_value and canonical_into_writer      *)
(* emit, against the two orders of RFC 8949.                                *)

\* canonical_into_writer of a Value: Value::serialized gives the Value back
canonical_into_vec(value) == into_vec(canonical_value(value))

\* in every map of v, at every depth, the encoded keys are in bytewise
\* lexicographic order (RFC 8949 section 4.2.1)
RECURSIVE KeysBytewise(_)
KeysBytewise(v) ==
    /\ v.k = "Map" =>
          \A i \in 1..(Len(Entries(v)) - 1) :
             CmpBytes(into_vec(Entries(v)[i][1]), into_vec(Entries(v)[i + 1][1])) <= 0
    /\ \A i \in 1..Len(v.items) : KeysBytewise(v.items[i])

\* in every map of v the encoded keys are in length-first order (RFC 7049
\* section 3.9, RFC 8949 section 4.2.3)
RECURSIVE KeysLengthFirst(_)
KeysLengthFirst(v) ==
    /\ v.k = "Map" =>
          \A i \in 1..(Len(Entries(v)) - 1) :
             CmpLengthFirst(into_vec(Entries(v)[i][1]), into_vec(Entries(v)[i + 1][1])) <= 0
    /\ \A i \in 1..Len(v.items) : KeysLengthFirst(v.items[i])

\* some map of v has a Tag for a key
RECURSIVE HasTagKey(_)
HasTagKey(v) ==
    \/ v.k = "Map" /\ \E i \in 1..Len(Entries(v)) : Entries(v)[i][1].k = "Tag"
    \/ \E i \in 1..Len(v.items) : HasTagKey(v.items[i])

\* C21: what canonical_value gives and canonical_into_writer writes has, in
\* every map, the keys in bytewise lexicographic order of their encoded bytes.
C21_KeysBytewise ==
    phase = "written" => wire = canonical_into_vec(arg) /\ KeysBytewise(back.v)

\* what the code does: the keys are in length-first order, and the map of
\* the test canonical_value_example is written as the test expects it
C21_KeysLengthFirst ==
    phase = "written" =>
        /\ wire = canonical_into_vec(arg)
        /\ ~HasTagKey(arg) => KeysLengthFirst(back.v)
        /\ arg = ExampleHead => wire = <<163, 32, 1, 244, 2, 24, 100, 3>>
        /\ canonical_into_vec(ExampleMap) = ExampleBytes

----------------------------------------------------------------------------
(* The SeqAccess / MapAccess of src/src/de/mod.rs, one call at a time.  dec *)
(* is the Io, ret the accessor (Option<usize>, usize), back the items the   *)
(* accessor has yielded so far.                                             *)

\* items a container is made of: 1, 100, "a", [], [_ ], 2(h'01') and 0(0)
AccessItems ==
    {<<1>>, <<24, 100>>, <<97, 97>>, <<128>>, <<159, 255>>, <<194, 65, 1>>, <<192, 0>>}

MaxAccessItems == 2

\* bytes that follow the container in the input
Trailers == {<<>>, <<0>>, <<255>>}

RECURSIVE Concat(_)
Concat(items) == IF items = <<>> THEN <<>> ELSE Head(items) \o Concat(Tail(items))

\* the container of arg: its header, its items, a Break when the length is
\* indefinite, and what follows it
AccessWire(a) ==
    (IF a.some
     THEN encode(SomeLen(a.major, U64(IF a.major = "Map" THEN Len(a.items) \div 2
                                      ELSE Len(a.items))))
     ELSE encode(NoneLen(a.major)))
    \o Concat(a.items) \o (IF a.some THEN <<>> ELSE <<255>>) \o a.trailer

InitAccess ==
    /\ phase = "closed"
    /\ stack = <<>>
    /\ arg \in {a \in [major : {"Array", "Map"}, some : BOOLEAN,
                       items : SeqsUpTo(AccessItems, MaxAccessItems), trailer : Trailers] :
                   a.major = "Map" => Len(a.items) % 2 = 0}
    /\ wire = AccessWire(arg)
    /\ back = Ok(<<>>)
    /\ dec = NewIo(wire)
    /\ segs = NoSegs
    /\ seg = NoSeg
    /\ ret = Err(NoErr)

\* Deserializer::new(io, major, msg) in deserialize_seq / deserialize_map
OpenAccess ==
    /\ phase = "closed"
    /\ dec' = NewAccess(dec, arg.major).d
    /\ ret' = NewAccess(dec, arg.major).r
    /\ phase' = IF NewAccess(dec, arg.major).r.ok THEN "open" ELSE "failed"
    /\ UNCHANGED <<arg, wire, back, segs, seg, stack>>

\* the match at the head of next_element_seed / next_key_seed
CheckEnd ==
    /\ phase = "open"
    /\ dec' = HasNext(dec, ret.v).d
    /\ IF ~HasNext(dec, ret.v).r.ok
       THEN ret' = HasNext(dec, ret.v).r /\ phase' = "failed"
       ELSE /\ ret' = Ok(HasNext(dec, ret.v).r.v.acc)
            /\ phase' = IF HasNext(dec, ret.v).r.v.more THEN "item" ELSE "ended"
    /\ UNCHANGED <<arg, wire, back, segs, seg, stack>>

\* seed.deserialize(Deserializer(io)) at the end of next_element_seed and of
\* next_key_seed, and in next_value_seed, with the seed of a Value
DecodeItem ==
    /\ phase \in {"item", "value"}
    /\ dec' = deserialize_any(dec).d
    /\ IF ~deserialize_any(dec).r.ok
       THEN ret' = deserialize_any(dec).r /\ phase' = "failed" /\ UNCHANGED back
       ELSE /\ back' = Ok(Append(back.v, deserialize_any(dec).r.v))
            /\ phase' = IF arg.major = "Map" /\ phase = "item" THEN "value" ELSE "open"
            /\ UNCHANGED ret
    /\ UNCHANGED <<arg, wire, segs, seg, stack>>

NextAccess == OpenAccess \/ CheckEnd \/ DecodeItem

SpecAccess == InitAccess /\ [][NextAccess]_vars

\* where item i of the container begins in the input
ItemStart(a, i) == 1 + Len(Concat(SubSeq(a.items, 1, i - 1)))

\* item i decoded on its own
ItemAlone(a, i) == from_reader(a.items[i]).v

\* the first header of item i, at the offset it has in the input
ItemHeader(a, i) ==
    [title |-> io_pull(NewIo(a.items[i]), FALSE).r.v.title, offset |-> ItemStart(a, i)]

\* C22: an accessor ends after exactly the items of the container, each
\* decoded as the item it is, having read the Break of an indefinite
\* container and nothing after it; a header pulled while checking for the end
\* of an indefinite container lies in the Io's buffer for the item's decoding.
C22_Accessor ==
    /\ phase \notin {"failed"}
    /\ phase = "ended" =>
          /\ back.v = [i \in 1..Len(arg.items) |-> ItemAlone(arg, i)]
          /\ dec.buffer = <<>> /\ dec.reader = arg.trailer
    /\ phase = "item" /\ ~arg.some =>
          /\ dec.buffer = <<ItemHeader(arg, Len(back.v) + 1)>>
          /\ dec.offset = ItemStart(arg, Len(back.v) + 1)
                            + Len(ItemHeader(arg, Len(back.v) + 1).title.minor.b) + 1

\* an item of the container begins with a Tag
HasTaggedItem(a) == \E i \in 1..Len(a.items) : a.items[i][1] \div 32 = 6

\* the same for containers none of whose items begins with a Tag, and for
\* containers of definite length
C22_AccessorUntagged ==
    arg.some \/ ~HasTaggedItem(arg) => C22_Accessor

\* a container of indefinite length ends after as many items as it has, its
\* Break read and nothing after it, though a tagged item loses its tag
C22_AccessorCount ==
    phase = "ended" =>
        /\ Len(back.v) = Len(arg.items)
        /\ dec.buffer = <<>> /\ dec.reader = arg.trailer

----------------------------------------------------------------------------
(* The collection protocol of the two serializers, driven one serde call at *)
(* a time: serialize_seq / serialize_map, serialize_element / serialize_key *)
(* / serialize_value, end.  stack holds the collections that are open, the  *)
(* innermost last; wire is the writer of the outermost serializer; ret is   *)
(* what the last end() wrote into its own serializer's writer.  arg is the  *)
(* serializer: "old" (src/src/ser/mod.rs) or "new" (src/ciborium/src/ser),  *)
(* its CanonicalizationScheme, and whether debug assertions are compiled in;*)
(* back counts the calls that opened a collection or serialized a scalar.   *)

\* the calls of one serialization
MaxCalls == 4

\* Option<usize>: None and Some(1)
Lengths == {[some |-> FALSE, v |-> 0], [some |-> TRUE, v |-> 1]}

\* the scalars a caller serializes: 100 and -1
ScalarBytes == {<<24, 100>>, <<32>>}

\* CollectionSerializer::push_header
push_header(collection_type, declared) ==
    IF collection_type = "Tag" THEN <<>>
    ELSE IF declared.some THEN encode(SomeLen(collection_type, U64(declared.v)))
    ELSE encode(NoneLen(collection_type))

\* CollectionSerializer::new: the collection, and in header what it writes
\* at once
CollectionSerializer_new(scheme, collection_type, declared) ==
    [collection_type |-> collection_type, length |-> declared,
     cache_keys |-> <<>>, cache_values |-> <<>>,
     header |-> IF is_sorting(scheme) THEN <<>> ELSE push_header(collection_type, declared)]

\* Serializer::serialize_seq / serialize_map of the old serializer, as the
\* same record: ending is ~declared.some
CollectionEncoder(collection_type, declared) ==
    [collection_type |-> collection_type, length |-> declared,
     cache_keys |-> <<>>, cache_values |-> <<>>,
     header |-> IF collection_type = "Array" THEN serialize_seq(declared.some, declared.v)
                ELSE serialize_map(declared.some, declared.v)]

\* keys.iter().zip(values.iter()): as many pairs as the shorter has
Zip(keys, values) == [i \in 1..Min(Len(keys), Len(values)) |-> <<keys[i], values[i]>>]

\* an end that never writes a Break
collection_end_no_break(scheme, cs, debug) ==
    IF is_sorting(scheme)
    THEN Ok(push_header(cs.collection_type, [some |-> TRUE, v |-> Len(cs.cache_values)])
            \o Concat(cs.cache_values))
    ELSE Ok(<<>>)

\* an end that writes the length the caller declared
collection_end_declared(scheme, cs, debug) ==
    IF is_sorting(scheme)
    THEN Ok(push_header(cs.collection_type, cs.length) \o Concat(cs.cache_values))
    ELSE Ok(IF cs.length.some THEN <<>> ELSE encode(Break))

\* end!() and end_map!() of CollectionSerializer: what end() writes, or the
\* panic of debug_assert_eq!
collection_end(scheme, cs, debug) ==
    IF cs.collection_type = "Map"
    THEN IF is_sorting(scheme)
         THEN IF debug /\ Len(cs.cache_keys) # Len(cs.cache_values) THEN Err(Panic)
              ELSE Ok(push_header("Map", [some |-> TRUE, v |-> Len(cs.cache_keys)])
                      \o WritePairs(sort(scheme, Zip(cs.cache_keys, cs.cache_values))))
         ELSE Ok(IF cs.length.some THEN <<>> ELSE encode(Break))
    ELSE IF is_sorting(scheme)
         THEN Ok(push_header(cs.collection_type, [some |-> TRUE, v |-> Len(cs.cache_values)])
                 \o Concat(cs.cache_values))
         ELSE Ok(IF cs.length.some THEN <<>> ELSE encode(Break))

\* bytes handed to the collection cs as a key or as a value / element: cached
\* when sorting, else written through
Cached(scheme, cs, role, bytes) ==
    IF ~is_sorting(scheme) THEN cs
    ELSE IF role = "key" THEN [cs EXCEPT !.cache_keys = Append(@, bytes)]
    ELSE [cs EXCEPT !.cache_values = Append(@, bytes)]

\* the calls a collection takes: serialize_element, or serialize_key and
\* serialize_value
Roles(cs) == IF cs.collection_type = "Map" THEN {"key", "value"} ELSE {"value"}

Serializers ==
    {[ser |-> "old", scheme |-> "None", debug |-> FALSE]}
    \cup [ser : {"new"}, scheme : Schemes, debug : BOOLEAN]

InitCollection ==
    /\ phase = "idle"
    /\ stack = <<>>
    /\ arg \in Serializers
    /\ wire = <<>>
    /\ back = Ok(0)
    /\ dec = Decoder(<<>>)
    /\ segs = NoSegs
    /\ seg = NoSeg
    /\ ret = Ok(<<>>)

\* serializer.serialize_seq(length) / serialize_map(length), for the value
\* being serialized or for a key, value or element of the open collection
OpenCollection ==
    /\ phase \in {"idle", "open"}
    /\ back.v < MaxCalls
    /\ phase = "idle" <=> stack = <<>>
    /\ \E ct \in {"Array", "Map"}, declared \in Lengths,
          role \in (IF stack = <<>> THEN {"top"} ELSE Roles(stack[Len(stack)].cs)) :
          LET cs == IF arg.ser = "old" THEN CollectionEncoder(ct, declared)
                    ELSE CollectionSerializer_new(arg.scheme, ct, declared)
          IN  /\ stack' = Append(stack, [cs |-> cs, role |-> role])
              /\ wire' = wire \o cs.header
    /\ phase' = "open"
    /\ back' = Ok(back.v + 1)
    /\ UNCHANGED <<arg, dec, segs, seg, ret>>

\* serialize_element / serialize_key / serialize_value of a scalar
SerializeScalar ==
    /\ phase = "open"
    /\ back.v < MaxCalls
    /\ \E bytes \in ScalarBytes, role \in Roles(stack[Len(stack)].cs) :
          /\ stack' = [stack EXCEPT ![Len(stack)].cs = Cached(arg.scheme, @, role, bytes)]
          /\ wire' = IF is_sorting(arg.scheme) THEN wire ELSE wire \o bytes
    /\ back' = Ok(back.v + 1)
    /\ UNCHANGED <<phase, arg, dec, segs, seg, ret>>

\* end() of the innermost collection: into the writer, or, when sorting,
\* into the cache of the collection it is a key, value or element of
EndCollection ==
    /\ phase = "open"
    /\ LET top == stack[Len(stack)]
           rest == SubSeq(stack, 1, Len(stack) - 1)
           r == IF arg.ser = "old" THEN Ok(end(~top.cs.length.some))
                ELSE collection_end(arg.scheme, top.cs, arg.debug)
       IN  /\ ret' = r
           /\ IF ~r.ok THEN phase' = "panicked" /\ UNCHANGED <<stack, wire>>
              ELSE /\ phase' = IF rest = <<>> THEN "done" ELSE "open"
                   /\ wire' = IF is_sorting(arg.scheme) /\ rest # <<>> THEN wire
                              ELSE wire \o r.v
                   /\ stack' = IF rest = <<>> THEN rest
                               ELSE [rest EXCEPT ![Len(rest)].cs =
                                        Cached(arg.scheme, @, top.role, r.v)]
    /\ UNCHANGED <<arg, back, dec, segs, seg>>

NextCollection == OpenCollection \/ SerializeScalar \/ EndCollection

SpecCollection == InitCollection /\ [][NextCollection]_vars

\* how many bytes of the sequence lie in S
CountIn(bytes, S) == Cardinality({i \in 1..Len(bytes) : bytes[i] \in S})

\* the header bytes 9f and bf, and the Break ff; no scalar of ScalarBytes and
\* no definite header holds one of them
IndefiniteHeaders == {159, 191}
BreakByte == 255

\* the open collections that were opened with length None
OpenIndefinite ==
    Cardinality({i \in 1..Len(stack) : ~stack[i].cs.length.some})

\* the one-byte header of a collection with the declared length
HeaderByte(collection_type, declared) ==
    IF ~declared.some THEN (IF collection_type = "Array" THEN 159 ELSE 191)
    ELSE (IF collection_type = "Array" THEN 128 ELSE 160) + declared.v

\* C23: without canonicalization a collection writes its header when it is
\* opened, the indefinite one for length None, and end() writes one Break for
\* length None and nothing for a known length; so every Break follows an
\* indefinite header that was still open, and the bytes of a completed
\* serialization hold as many Breaks as indefinite headers.
C23_IndefiniteClosed ==
    /\ [](arg.scheme = "None" =>
            /\ CountIn(wire, IndefiniteHeaders) = CountIn(wire, {BreakByte}) + OpenIndefinite
            /\ \A k \in 1..Len(wire) :
                  CountIn(SubSeq(wire, 1, k), {BreakByte})
                     <= CountIn(SubSeq(wire, 1, k), IndefiniteHeaders))
    /\ [][arg.scheme = "None" /\ Len(stack') > Len(stack) =>
             wire' = Append(wire, HeaderByte(stack'[Len(stack')].cs.collection_type,
                                             stack'[Len(stack')].cs.length))]_vars
    /\ [][arg.scheme = "None" /\ Len(stack') < Len(stack) =>
             wire' = IF stack[Len(stack)].cs.length.some THEN wire
                     ELSE Append(wire, BreakByte)]_vars

\* the new serializer has written an indefinite map with a scalar key and,
\* as its value, an indefinite array: bf 20 9f ff ff
C23_Witness ==
    /\ phase = "done" /\ arg.ser = "new" /\ arg.scheme = "None"
    /\ wire = <<191, 32, 159, 255, 255>>

\* the pairs of keys and values in the order p, key before value
PairsInOrder(keys, values, p) ==
    Concat([i \in 1..Len(keys) |-> keys[p[i]] \o values[p[i]]])

\* what end() of the collection cs has to write when canonicalizing: the
\* definite header with the number of cached values (keys for a map), then
\* every cached entry
DeferredWrite(cs, written) ==
    IF cs.collection_type = "Map"
    THEN \E p \in Perms(Len(cs.cache_keys)) :
            written = <<160 + Len(cs.cache_keys)>>
                      \o PairsInOrder(cs.cache_keys, cs.cache_values, p)
    ELSE written = <<128 + Len(cs.cache_values)>> \o Concat(cs.cache_values)

C24_PanicReached == ~(phase = "panicked" /\ arg.debug)

\* without them it writes the header of a map of 1 and no entry
C24_ReleaseMismatch == ~(phase = "done" /\ is_sorting(arg.scheme) /\ wire = <<161>>)

----------------------------------------------------------------------------
(* Bignums with leading zero bytes, in one definite byte string or in the   *)
(* chunks of an indefinite one: from_reader::<Value> (Deserializer::bignum) *)
(* and basic::Decoder::bigint.                                              *)

MaxZeros == 3

\* the bytes of a bignum after its leading zeros: none, 1, 2^64, 2^127 - 1,
\* 2^127, 2^128 - 1, and two of 17 bytes
Significant ==
    { <<>>, <<1>>, <<1, 0, 0, 0, 0, 0, 0, 0, 0>>,
      <<127>> \o [i \in 1..15 |-> 255], <<128>> \o Zeros(15), [i \in 1..16 |-> 255],
      <<1>> \o Zeros(16), <<1>> \o [i \in 1..16 |-> 255] }

\* a definite-length byte string of fewer than 24 bytes
ByteString(s) == <<64 + Len(s)>> \o s

\* payload p as one definite string (form 0) and as the three chunks cut at
\* a and b of an indefinite string (form 1)
BignumString(p, form, a, b) ==
    LET c1 == ByteString(SubSeq(p, 1, a))
        c2 == ByteString(SubSeq(p, a + 1, b))
        c3 == ByteString(SubSeq(p, b + 1, Len(p)))
    IN  IF form = 0 THEN ByteString(p)
        ELSE <<95>> \o c1 \o c2 \o c3 \o <<255>>

\* the for loop of Decoder::bigint over one chunk: the bytes stored so far,
\* or Err(None) when they do not fit the buffer
RECURSIVE BigintBytes(_, _, _)
BigintBytes(chunk, i, acc) ==
    IF i > Len(chunk) THEN Ok(acc)
    ELSE IF acc = <<>> /\ chunk[i] = 0 THEN BigintBytes(chunk, i + 1, acc)
    ELSE IF Len(acc) >= 16 THEN Err(NoErr)
    ELSE BigintBytes(chunk, i + 1, Append(acc, chunk[i]))

\* while let Some(chunk) = segment.next()?, n being what segment.next()
\* returned and b what the for loop made of its chunk
RECURSIVE BigintSegment(_, _, _)
BigintStore(n, b) ==
    IF b.ok THEN BigintSegment(n.d, n.seg, b.v) ELSE Out(n.d, b)

BigintChunk(n, acc) ==
    IF ~n.r.ok THEN Out(n.d, n.r)
    ELSE IF ~n.r.v.some THEN Out(n.d, Ok(acc))
    ELSE BigintStore(n, BigintBytes(n.r.v.v, 1, acc))

BigintSegment(d, sg, acc) == BigintChunk(SegmentNext(d, sg, FALSE, 16), acc)

\* while let Some(mut segment) = segments.next()?, n being what
\* segments.next() returned
RECURSIVE BigintSegments(_, _, _)
BigintLent(n, acc) ==
    IF ~n.r.ok THEN Out(n.d, n.r)
    ELSE IF ~n.r.v.some THEN Out(n.d, Ok(acc))
    ELSE Try(BigintSegment(n.d, n.seg, acc), LAMBDA s :
             BigintSegments(s.d, n.segs, s.r.v))

BigintSegments(d, ss, acc) == BigintLent(SegmentsNext(d, ss), acc)

\* Decoder::bigint: Err(None) is Err(NoErr)
bigint(d) ==
    Try(HeaderPull(d, FALSE), LAMBDA o :
        IF o.r.v.tag = "Bytes"
        THEN Try(BigintSegments(push(o.d, TitleFromHeader(o.r.v)),
                                NewSegments(FALSE, 16), <<>>),
                 LAMBDA b : Out(b.d, Ok(Pad(16, b.r.v))))
        ELSE Out(o.d, Err(Syntax(d.offset))))

\* arg is the tag, the number of leading zeros and the significant bytes;
\* wire is Tag(2) or Tag(3) and the byte string
InitLeading ==
    /\ phase = "input"
    /\ stack = <<>>
    /\ \E tag \in {TAG_BIGPOS, TAG_BIGNEG}, zeros \in 0..MaxZeros, sig \in Significant :
         /\ arg = [tag |-> tag, zeros |-> zeros, sig |-> sig]
         /\ \E form \in 0..1, a \in 0..(zeros + Len(sig)), b \in 0..(zeros + Len(sig)) :
              /\ a <= b
              /\ form = 0 => a = 0 /\ b = 0
              /\ wire = <<192 + tag>> \o BignumString(Zeros(zeros) \o sig, form, a, b)
    /\ back = Err(NoErr)
    /\ dec = Decoder(<<>>)
    /\ segs = NoSegs
    /\ seg = NoSeg
    /\ ret = Err(NoErr)

\* de::from_reader::<Value, _>(&wire[..])
ReadBignum ==
    /\ phase = "input"
    /\ back' = from_reader(wire)
    /\ phase' = "value"
    /\ UNCHANGED <<arg, wire, dec, segs, seg, ret, stack>>

\* Decoder::bigint after the tag has been pulled
ReadBigint ==
    /\ phase = "input"
    /\ LET o == bigint(Decoder(Tail(wire)))
       IN  dec' = o.d /\ ret' = o.r
    /\ phase' = "bigint"
    /\ UNCHANGED <<arg, wire, back, segs, seg, stack>>

NextLeading == ReadBignum \/ ReadBigint

SpecLeading == InitLeading /\ [][NextLeading]_vars

\* the top bit of the 128-bit raw value is set
TopBit(sig) == Len(sig) = 16 /\ sig[1] >= 128

\* C25: Tag(2) and a byte string, definite or in chunks, decodes to the
\* unsigned big-endian value of its payload when at most 16 bytes follow the
\* leading zeros, however many zeros there are, and to a Semantic error when
\* more follow; Tag(3) decodes to -1 - raw, and to a Semantic error when the
\* top bit of raw is set.  Decoder::bigint returns the same raw value, and
\* Err(None) when more than 16 bytes follow the zeros.
C25_LeadingZeros ==
    /\ phase = "value" =>
         IF Len(arg.sig) > 16 \/ (arg.tag = TAG_BIGNEG /\ TopBit(arg.sig))
         THEN ~back.ok /\ back.e.kind = "Semantic"
         ELSE IF arg.tag = TAG_BIGPOS
         THEN back = Ok(IntegerFromU128(Pad(16, arg.sig)))
         ELSE back = Ok(IntegerFromI128(Not(Pad(16, arg.sig))))
    /\ phase = "bigint" =>
         ret = IF Len(arg.sig) > 16 THEN Err(NoErr) ELSE Ok(Pad(16, arg.sig))

\* c2 5f 41 00 42 00 01 40 ff, two leading zeros spread over two chunks,
\* was decoded to 1
C25_Witness ==
    /\ phase = "value"
    /\ wire = <<194, 95, 65, 0, 66, 0, 1, 64, 255>>
    /\ back = Ok(IntegerFromU128(Pad(16, <<1>>)))

----------------------------------------------------------------------------
(* Input made of indefinite string starts only (src/tests/recursion.rs,     *)
(* bytes and text), read by from_reader::<Value> one turn of the loop of    *)
(* chunked() at a time: `dec` is the Io, `ret` the counter `chunked` and    *)
(* `stack` the bytes gathered.                                              *)

MaxStarts == 48

\* the lengths tried: 1..MaxStarts, and those around the recursion limit
StartLengths == 1..MaxStarts \cup (RecursionLimit - 1)..(RecursionLimit + MaxBeyond)

\* n times the byte b
Starts(n, b) == [i \in 1..n |-> b]

\* starts only, and a few strings that are closed: 5f ff, 5f 41 00 ff,
\* 5f 5f ff ff
StartInputs(b) ==
    {Starts(n, b) : n \in StartLengths}
    \cup {<<b, 255>>, <<b, b - 30, 0, 255>>, <<b, b, 255, 255>>}

InitStarts ==
    /\ phase = "input"
    /\ stack = <<>>
    /\ arg \in {95, 127}
    /\ wire \in StartInputs(arg)
    /\ back = Err(NoErr)
    /\ dec = NewIo(wire)
    /\ segs = NoSegs
    /\ seg = NoSeg
    /\ ret = Ok(0)

\* deserialize_any: the item is pulled and pushed back, and
\* deserialize_byte_buf or deserialize_string calls chunked()
BeginString ==
    /\ phase = "input"
    /\ LET p == io_pull(dec, FALSE)
       IN  IF p.r.ok /\ p.r.v.title.major \in {"Bytes", "Text"}
           THEN /\ dec' = io_push(p.d, p.r.v)
                /\ phase' = "chunked"
                /\ back' = back
           ELSE /\ dec' = deserialize_any(dec).d
                /\ phase' = "read"
                /\ back' = deserialize_any(dec).r
    /\ UNCHANGED <<arg, wire, segs, seg, ret, stack>>

\* one turn of the loop of chunked(); when it returns, the visitor makes the
\* Value
ChunkedTurn ==
    /\ phase = "chunked"
    /\ LET text == arg = 127
           t == chunked_turn(dec, IF text THEN "Text" ELSE "Bytes",
                             IF text THEN "text" ELSE "bytes", ret.v, stack)
       IN  /\ dec' = t.d
           /\ ret' = Ok(t.count)
           /\ IF t.done
              THEN /\ phase' = "read"
                   /\ stack' = <<>>
                   /\ back' = IF ~t.r.ok THEN t.r
                              ELSE Ok(IF text THEN VText(t.r.v) ELSE VBytes(t.r.v))
              ELSE /\ phase' = phase
                   /\ stack' = t.r.v
                   /\ back' = back
    /\ UNCHANGED <<arg, wire, segs, seg>>

NextStarts == BeginString \/ ChunkedTurn

SpecStarts == InitStarts /\ [][NextStarts]_vars

\* the turns taken one at a time return what from_reader returns
StartsAgree ==
    phase = "read" /\ Len(wire) <= MaxStarts => back = from_reader(wire)

\* C26: input of 0x5f bytes only, or of 0x7f bytes only, fails with the Io
\* error of the end of input, whatever its length: not with
\* RecursionLimitExceeded and not with a Syntax error.
C26_StartsOnly ==
    phase = "read" /\ wire = Starts(Len(wire), arg) => ~back.ok /\ back.e = Io

\* more 0x7f bytes than the recursion limit were read up to the end of input
C26_Witness ==
    /\ phase = "read"
    /\ wire = Starts(RecursionLimit + 1, 127)
    /\ ret = Ok(RecursionLimit + 1)
    /\ back = Err(Io)

----------------------------------------------------------------------------
(* Segments::next after it has returned None (src/src/basic/seg.rs), in the *)
(* specification Spec of the Decoder and its Segments.                      *)

\* the last call on the live Segments was Segments::next, and it returned
\* Ok(None)
ReturnedNone == segs.active /\ ret.op = "segment" /\ ret.r = Ok(None)

\* the step is a call of Segments::next
SegmentsNextCalled == segs.active /\ ~seg.active /\ segs'.active

\* C27: once Segments::next has returned None, after the one segment of a
\* definite string or after the Break that closes an indefinite string, every
\* later call returns None and pulls no header from the decoder.
C27_Terminal ==
    [][ReturnedNone /\ SegmentsNextCalled => ret'.r = Ok(None) /\ dec' = dec]_vars

\* when the one segment of a definite string has been lent out (the buffer
\* is taken) Segments::next returns None and leaves the decoder alone
C27_TakenIsTerminal ==
    segs.active /\ ~segs.buffer
        => SegmentsNext(dec, segs).r = Ok(None) /\ SegmentsNext(dec, segs).d = dec

\* after the Break of 5f ff was consumed and None returned, the Segments still
\* holds its buffer with nested = 1 and a definite string follows: the next
\* call lends out a segment of it
C27_AfterBreak ==
    ~(/\ ReturnedNone /\ segs.buffer /\ segs.nested = 1
      /\ arg = <<95, 255, 65>> /\ dec.reader = <<65>>
      /\ SegmentsNext(dec, segs).r = Ok(Some(<<>>)))

----------------------------------------------------------------------------
(* Ord for CanonicalValue as an order (canonical.rs, cmp_value), in the     *)
(* specification SpecOrder: the pair compared and every third value.        *)

ThirdValues == OrderValues \cup ListValues

\* cmp_value is antisymmetric at the pair compared, Equal for equal values
\* only, and transitive through every third value c
TotalAt(a, b, r) ==
    /\ r = 0 - cmp_value(b, a)
    /\ (r = 0) <=> (a = b)
    /\ \A c \in ThirdValues : r <= 0 /\ cmp_value(b, c) <= 0 => cmp_value(a, c) <= 0

\* C28: the order of CanonicalValue is a strict total order: antisymmetric,
\* transitive also across kinds (tagged values, integers of different encoded
\* lengths), and Equal exactly for equal values.
C28_TotalOrder ==
    phase = "compared" => TotalAt(arg.a, arg.b, back.v)

\* Tag(0, [1, 2, 3]) compared Less than Tag(24, 0), which is Less than "abc",
\* which is Less than Tag(0, [1, 2, 3])
C28_Cycle ==
    ~(/\ phase = "compared"
      /\ arg.a = VTag(U64(0), Array(<<Nat16(1), Nat16(2), Nat16(3)>>))
      /\ arg.b = VTag(U64(24), Nat16(0))
      /\ back.v = 0 - 1
      /\ cmp_value(arg.b, VText(<<97, 98, 99>>)) = 0 - 1
      /\ cmp_value(VText(<<97, 98, 99>>), arg.a) = 0 - 1)

\* the order is total where at most one of the values is a Tag
C28_TotalOrderUntagged ==
    phase = "compared" /\ ~(arg.a.k = "Tag" /\ arg.b.k = "Tag") =>
        /\ back.v = 0 - cmp_value(arg.b, arg.a)
        /\ (back.v = 0) <=> (arg.a = arg.b)
        /\ \A c \in ThirdValues :
             c.k # "Tag" \/ (arg.a.k # "Tag" /\ arg.b.k # "Tag")
                => (back.v <= 0 /\ cmp_value(arg.b, c) <= 0 => cmp_value(arg.a, c) <= 0)

----------------------------------------------------------------------------
(* Segment::next called again and again on the segment of one definite-     *)
(* length byte or text string, with scratch buffers from one byte up.       *)
(* `back` counts the calls, `ret` is what the last call returned, and       *)
(* `stack` holds what the calls to come return, worked out when the segment *)
(* is opened (Segment::next depends on the decoder and the Segment only).   *)

\* the longest scratch buffer tried
MaxScratch == 5

\* more calls than any payload has bytes
CallCap == 3 * MaxText + 2

\* byte payloads of 0 .. 3 * MaxText bytes, and the texts of Utf8Samples
Payloads ==
    {[text |-> FALSE, payload |-> [i \in 1..n |-> 255]] : n \in 0..(3 * MaxText)}
    \cup {[text |-> TRUE, payload |-> t] : t \in Utf8Samples}

\* what the next k calls of Segment::next return, up to the first that
\* returns None or an error
RECURSIVE Calls(_, _, _, _, _)
CallsAfter(o, text, buflen, k) ==
    <<o>> \o (IF o.r.ok /\ o.r.v.some THEN Calls(o.d, o.seg, text, buflen, k - 1) ELSE <<>>)

Calls(d, sg, text, buflen, k) ==
    IF k = 0 THEN <<>> ELSE CallsAfter(SegmentNext(d, sg, text, buflen), text, buflen, k)

\* the segment opened on the item of payload p: the header is pulled,
\* Decoder::bytes / Decoder::text is given the scratch buffer, and
\* Segments::next lends out the one segment
Opened1(p, buflen, o) ==
    /\ arg' = [text |-> p.text, payload |-> p.payload, buflen |-> buflen]
    /\ dec' = o.d
    /\ segs' = o.segs
    /\ seg' = o.seg
    /\ stack' = Calls(o.d, o.seg, p.text, buflen, CallCap)

SegmentItem(p) == <<(IF p.text THEN 96 ELSE 64) + Len(p.payload)>> \o p.payload

InitSegment ==
    /\ phase = "item"
    /\ stack = <<>>
    /\ arg = <<>>
    /\ wire = <<>>
    /\ back = Ok(0)
    /\ dec = Decoder(<<>>)
    /\ segs = NoSegs
    /\ seg = NoSeg
    /\ ret = Ok(Some(<<>>))

OpenSegment ==
    /\ phase = "item"
    /\ \E p \in Payloads, buflen \in 1..MaxScratch :
          /\ wire' = SegmentItem(p)
          /\ Opened1(p, buflen,
                     SegmentsNext(push(HeaderPull(Decoder(SegmentItem(p)), FALSE).d,
                                       TitleFromHeader(SomeLen(IF p.text THEN "Text" ELSE "Bytes",
                                                               U64(Len(p.payload))))),
                                  NewSegments(p.text, buflen)))
    /\ phase' = "segment"
    /\ UNCHANGED <<back, ret>>

\* Segment::next
CallSegmentNext ==
    /\ phase = "segment"
    /\ stack # <<>>
    /\ dec' = Head(stack).d
    /\ seg' = Head(stack).seg
    /\ ret' = Head(stack).r
    /\ phase' = IF Head(stack).r.ok /\ Head(stack).r.v.some THEN "segment" ELSE "ended"
    /\ back' = Ok(back.v + 1)
    /\ stack' = Tail(stack)
    /\ UNCHANGED <<arg, wire, segs>>

NextSegmentCalls == OpenSegment \/ CallSegmentNext

SpecSegment == InitSegment /\ [][NextSegmentCalls]_vars

\* the caller goes on calling for as long as it is handed Some
SpecSegmentFair == SpecSegment /\ WF_vars(CallSegmentNext)

\* what the next call returns is what Segment::next returns on the decoder
\* and the Segment as they are
CallsAreSegmentNext ==
    phase = "segment" /\ stack # <<>>
        => Head(stack) = SegmentNext(dec, seg, arg.text, arg.buflen)

\* a call of Segment::next that returned Some took at least one byte of the
\* payload from the reader
SomeConsumes ==
    phase = "segment" /\ phase' = "segment" => Len(dec'.reader) < Len(dec.reader)

\* C29: whatever the length of the scratch buffer, from one byte up, and
\* whatever the definite-length byte or text payload, the calls of
\* Segment::next come to an end, with None or with an error, and every call
\* that returns Some has consumed at least one byte of the payload.
C29_SegmentTerminates ==
    /\ phase = "segment" ~> phase = "ended"
    /\ [][SomeConsumes]_vars

\* a byte payload, or a scratch buffer that holds any scalar value (four
\* bytes or more)
FourBytes == phase = "segment" /\ (~arg.text \/ arg.buflen >= TextScratch)

\* the same for byte payloads and for scratch buffers of four bytes or more
C29_TerminatesFourBytes ==
    /\ FourBytes ~> phase = "ended"
    /\ [][FourBytes => SomeConsumes]_vars

\* with a one-byte buffer over the text c3 a9, the first call stashed c3 and
\* every call after it returned Some("") with a9 still unread
C29_Stuck ==
    ~(/\ phase = "segment" /\ back.v = CallCap
      /\ arg.buflen = 1 /\ arg.payload = <<195, 169>>
      /\ ret = Ok(Some(<<>>)) /\ seg.unread = 1 /\ seg.parser.stored = 1)

----------------------------------------------------------------------------
(* The tokio Decoder (src/ciborium-tokio/src/lib.rs) fed a stream of two    *)
(* items one byte at a time: `arg` is the type T and the items still to be  *)
(* taken out, `wire` the bytes yet to arrive, `stack` the BytesMut src and  *)
(* `ret` the last decode: the buffer it was given, the item that was due,   *)
(* the result and the buffer it left.                                       *)

\* the Values 10, -1000, "aa", [100], true and h'01'
StreamValues ==
    {Nat16(10), Neg16(999), VText(<<97, 97>>), Array(<<Nat16(100)>>), Bool(TRUE), VBytes(<<1>>)}

\* encodings of items: those of StreamValues as the serializer writes them,
\* and [_ 1], (_ h'01'), {_ 1: 2}, 2(h'01'), 0("a"), [[], {}]
ValueItems ==
    {into_vec(v) : v \in StreamValues}
    \cup {<<159, 1, 255>>, <<95, 65, 1, 255>>, <<191, 1, 2, 255>>, <<194, 65, 1>>,
          <<192, 97, 97>>, <<130, 128, 160>>}

\* the items of tests/tokio.rs for a Codec<u8, u8>: 7 and 24
ByteItems == {<<7>>, <<24, 24>>, <<24, 255>>}

\* from_reader::<T, _>(&mut bytes): the Io afterwards and the result
from_reader_T(T, bytes) ==
    IF T = "u8" THEN integer(NewIo(bytes), "u8") ELSE deserialize_any(NewIo(bytes))

\* a decode that clears the buffer once it has an item
decode_clear(T, src) ==
    IF from_reader_T(T, src).r.ok
    THEN [src |-> <<>>, r |-> Ok(Some(from_reader_T(T, src).r.v))]
    ELSE IF from_reader_T(T, src).r.e = Io THEN [src |-> src, r |-> Ok(None)]
    ELSE [src |-> src, r |-> from_reader_T(T, src).r]

\* decode once from_reader has returned o: the only Io error of a slice is
\* the end of input, and src.advance(starting - ending) drops the bytes that
\* from_reader took
Decoded(src, o) ==
    IF o.r.ok
    THEN [src |-> SubSeq(src, Len(src) - Len(o.d.reader) + 1, Len(src)),
          r |-> Ok(Some(o.r.v))]
    ELSE IF o.r.e = Io THEN [src |-> src, r |-> Ok(None)]
    ELSE [src |-> src, r |-> o.r]

\* Decoder::decode: the buffer afterwards and the result
decode(T, src) == Decoded(src, from_reader_T(T, src))

InitTokio ==
    /\ phase = "stream"
    /\ \E T \in {"Value", "u8"} :
         \E first \in (IF T = "u8" THEN ByteItems ELSE ValueItems),
            second \in (IF T = "u8" THEN ByteItems ELSE ValueItems) :
              /\ arg = [T |-> T, items |-> <<first, second>>]
              /\ wire = first \o second
    /\ stack = <<>>
    /\ back = Err(NoErr)
    /\ dec = Decoder(<<>>)
    /\ segs = NoSegs
    /\ seg = NoSeg
    /\ ret = [before |-> <<>>, due |-> <<>>, r |-> Err(NoErr), after |-> <<>>]

\* one more byte arrives in the buffer
Receive ==
    /\ phase = "stream"
    /\ wire # <<>>
    /\ stack' = Append(stack, Head(wire))
    /\ wire' = Tail(wire)
    /\ UNCHANGED <<phase, arg, back, dec, segs, seg, ret>>

\* Decoder::decode(&mut src)
Decode ==
    /\ phase = "stream"
    /\ \E o \in {decode(arg.T, stack)} :
          /\ stack' = o.src
          /\ ret' = [before |-> stack,
                     due |-> IF arg.items = <<>> THEN <<>> ELSE Head(arg.items),
                     r |-> o.r, after |-> o.src]
          /\ arg' = IF o.r.ok /\ o.r.v.some /\ arg.items # <<>>
                    THEN [arg EXCEPT !.items = Tail(@)] ELSE arg
    /\ UNCHANGED <<phase, wire, back, dec, segs, seg>>

NextTokio == Receive \/ Decode

SpecTokio == InitTokio /\ [][NextTokio]_vars

\* the last decode was given a buffer that held the whole of the item due
WholeItem == ret.due # <<>> /\ Len(ret.before) >= Len(ret.due)

\* C30: with only a proper prefix of the item due in the buffer, decode
\* returns Ok(None) and leaves the buffer as it is; with the whole item in
\* the buffer it returns the item and removes the bytes of that item and no
\* others.  Every item of StreamValues is decoded to the Value it encodes.
C30_Fragmentation ==
    /\ ret.due # <<>> /\ ~WholeItem => ret.r = Ok(None) /\ ret.after = ret.before
    /\ WholeItem =>
          /\ ret.r = Ok(Some(from_reader_T(arg.T, ret.due).r.v))
          /\ from_reader_T(arg.T, ret.due).r.ok
          /\ ret.before = ret.due \o ret.after
    /\ stack = <<>> /\ ret.r = Err(NoErr)
          => \A v \in StreamValues : from_reader(into_vec(v)) = Ok(v)

\* 18 alone gave Ok(None); 18 18 with the 07 that follows gave 24 and left
\* the 07 in the buffer
C30_Witness ==
    /\ arg.T = "u8" /\ ret.before = <<24, 24, 7>> /\ ret.due = <<24, 24>>
    /\ ret.r = Ok(Some(Pad(16, <<24>>)))
    /\ ret.after = <<7>> /\ stack = <<7>>

============================================================================
